---------------------------- MODULE Spec2Model ----------------------------
(***************************************************************************)
(* Podcast-Video-Bot: the text segmenter of api/split_story.py and the     *)
(* batch-window protocol shared by api/translate_text.py,                  *)
(* api/generate_tts.py, api/generate_images.py and api/create_videos.py.   *)
(*                                                                         *)
(* A cleaned text is a sequence of words separated by single spaces.  A    *)
(* word is <<position, ends>>: its position in the text (its identity) and *)
(* whether its last character is one of . ! ? (a sentence terminator).     *)
(***************************************************************************)
EXTENDS Integers, Sequences, FiniteSets, TLC

\* ------------------------------------------------------------------ bounds
MaxWords == 8
MaxTarget == 5
MaxParts == 3
MaxIndex == 3
MaxSize == 3

VARIABLES
    \* split_story: one request and its response
    spc,            \* "idle" | "request" | "done"
    sreq,           \* [text: "missing" | "blank" | "text", cleaned, has_target, target_words]
    sresp,          \* [status, body]
    ssends,         \* number of responses sent for the request
    \* batch endpoints: one request being handled, and the caller driving it
    endpoint,       \* "none" | "translate_text" | "generate_tts" | "generate_images" | "create_videos"
    shape,          \* "list" | "missing" | "notlist" | "mismatch": what the request holds as items
    parts,          \* the item list of the request (item kinds)
    batch_index,
    batch_size,
    pc,             \* "idle" | "recv" | "loop" | "sent" | "done"
    pos,            \* number of entries of batch_parts the loop has consumed
    batch,          \* translated_batch / audio_batch / image_batch / video_batch
    opCalls,        \* indices of parts the external operation was invoked for, in order
    resp,           \* [status, body]
    sends,          \* number of responses sent for the request being handled
    callerLog,      \* the 200 responses' windows of a caller that started at batch_index 0
    \* the other endpoints: one record each, [pc |-> "idle"] when not in use
    lv,             \* create_long_video: a request, concatenate_videos and the temp files
    cv,             \* create_videos: calls of create_video and the temp files
    md,             \* generate_metadata: a request
    rt,             \* generate_images.generate_image / generate_thumbnail: one remote generation
    pdf,            \* extract_text: a request
    \* the text functions: one record each, [pc |-> "idle"] when not in use
    tr,             \* translate_text.translate_text: the backends tried for each text
    ch,             \* translate_text.translate_with_mymemory: the chunks of a text
    tg,             \* generate_metadata: the tags of a request
    sb,             \* create_videos.add_subtitle: the wrapped lines of a subtitle
    cl              \* split_story.clean_transcript: a text being cleaned

svars == <<spc, sreq, sresp, ssends>>
bvars == <<endpoint, shape, parts, batch_index, batch_size, pc, pos, batch, opCalls, resp, sends,
           callerLog>>
tvars == <<tr, ch, tg, sb, cl>>
vars == <<spc, sreq, sresp, ssends, endpoint, shape, parts, batch_index, batch_size, pc, pos,
          batch, opCalls, resp, sends, callerLog, lv, cv, md, rt, pdf, tr, ch, tg, sb, cl>>

NoResponse == [status |-> 0, body |-> [none |-> TRUE]]

Min(a, b) == IF a <= b THEN a ELSE b
Max(a, b) == IF a >= b THEN a ELSE b

\* ============================================================ split_story

MinWordsHalf(target) == target \div 2

\* int(target_words * 0.8) and int(target_words * 1.2): Python's int() truncates
\* toward zero.
MinWords(target) == IF target >= 0 THEN (4 * target) \div 5 ELSE 0 - ((4 * (0 - target)) \div 5)
MaxWordsOf(target) == IF target >= 0 THEN (6 * target) \div 5 ELSE 0 - ((6 * (0 - target)) \div 5)

\* re.split(r'(?<=[.!?])\s+', text): the text is cut at every space that follows
\* a terminator; the terminator stays with the sentence before the cut.
RECURSIVE SentencesFrom(_, _, _)
SentencesFrom(ws, k, cur) ==
    IF k > Len(ws)
    THEN IF cur = <<>> THEN <<>> ELSE <<cur>>
    ELSE LET c == Append(cur, ws[k])
         IN  IF ws[k][2]
             THEN <<c>> \o SentencesFrom(ws, k + 1, <<>>)
             ELSE SentencesFrom(ws, k + 1, c)

\* re.split of the empty string is [''] (one empty piece).
SplitSentences(ws) == IF ws = <<>> THEN << <<>> >> ELSE SentencesFrom(ws, 1, <<>>)

\* ' '.join(current_part)
RECURSIVE Join(_)
Join(ss) == IF ss = <<>> THEN <<>> ELSE Head(ss) \o Join(Tail(ss))

\* len(sentence.split())
WordCount(s) == Len(s)

\* One iteration of the loop over the sentences (SplitStep), and two slips of it.
SplitStepDropOnClose(st, sentence, target) ==
    IF sentence = <<>> THEN st
    ELSE LET sw == WordCount(sentence)
         IN  IF st.current_word_count > 0 /\ st.current_word_count + sw > MaxWordsOf(target)
             THEN IF st.current_word_count >= MinWords(target)
                  THEN [parts |-> Append(st.parts, Join(st.current_part)),
                        current_part |-> <<>>,
                        current_word_count |-> 0]
                  ELSE [st EXCEPT !.current_part = Append(@, sentence),
                                  !.current_word_count = @ + sw]
             ELSE IF st.current_word_count + sw >= target
                  THEN [parts |-> Append(st.parts, Join(Append(st.current_part, sentence))),
                        current_part |-> <<>>,
                        current_word_count |-> 0]
                  ELSE [st EXCEPT !.current_part = Append(@, sentence),
                                  !.current_word_count = @ + sw]

SplitStepNoMinGate(st, sentence, target) ==
    IF sentence = <<>> THEN st
    ELSE LET sw == WordCount(sentence)
         IN  IF st.current_word_count > 0 /\ st.current_word_count + sw > MaxWordsOf(target)
             THEN [parts |-> Append(st.parts, Join(st.current_part)),
                   current_part |-> <<sentence>>,
                   current_word_count |-> sw]
             ELSE IF st.current_word_count + sw >= target
                  THEN [parts |-> Append(st.parts, Join(Append(st.current_part, sentence))),
                        current_part |-> <<>>,
                        current_word_count |-> 0]
                  ELSE [st EXCEPT !.current_part = Append(@, sentence),
                                  !.current_word_count = @ + sw]

SplitStepStrictTarget(st, sentence, target) ==
    IF sentence = <<>> THEN st
    ELSE LET sw == WordCount(sentence)
         IN  IF st.current_word_count > 0 /\ st.current_word_count + sw > MaxWordsOf(target)
             THEN IF st.current_word_count >= MinWords(target)
                  THEN [parts |-> Append(st.parts, Join(st.current_part)),
                        current_part |-> <<sentence>>,
                        current_word_count |-> sw]
                  ELSE [st EXCEPT !.current_part = Append(@, sentence),
                                  !.current_word_count = @ + sw]
             ELSE IF st.current_word_count + sw > target
                  THEN [parts |-> Append(st.parts, Join(Append(st.current_part, sentence))),
                        current_part |-> <<>>,
                        current_word_count |-> 0]
                  ELSE [st EXCEPT !.current_part = Append(@, sentence),
                                  !.current_word_count = @ + sw]

SplitStep(st, sentence, target) ==
    IF sentence = <<>> THEN st
    ELSE LET sw == WordCount(sentence)
         IN  IF st.current_word_count > 0 /\ st.current_word_count + sw > MaxWordsOf(target)
             THEN IF st.current_word_count >= MinWords(target)
                  THEN [parts |-> Append(st.parts, Join(st.current_part)),
                        current_part |-> <<sentence>>,
                        current_word_count |-> sw]
                  ELSE [st EXCEPT !.current_part = Append(@, sentence),
                                  !.current_word_count = @ + sw]
             ELSE IF st.current_word_count + sw >= target
                  THEN [parts |-> Append(st.parts, Join(Append(st.current_part, sentence))),
                        current_part |-> <<>>,
                        current_word_count |-> 0]
                  ELSE [st EXCEPT !.current_part = Append(@, sentence),
                                  !.current_word_count = @ + sw]

RECURSIVE SplitLoop(_, _, _, _)
SplitLoop(st, sentences, k, target) ==
    IF k > Len(sentences) THEN st
    ELSE SplitLoop(SplitStep(st, sentences[k], target), sentences, k + 1, target)

split_into_parts(text, target) ==
    LET st == SplitLoop([parts |-> <<>>, current_part |-> <<>>, current_word_count |-> 0],
                        SplitSentences(text), 1, target)
    IN  IF st.current_part # <<>>
        THEN Append(st.parts, Join(st.current_part))
        ELSE st.parts

RECURSIVE SumWords(_)
SumWords(ps) == IF ps = <<>> THEN 0 ELSE WordCount(Head(ps)) + SumWords(Tail(ps))

\* The cleaned texts of at most MaxWords words.
CleanedTexts ==
    UNION { { [i \in 1..n |-> <<i, f[i]>>] : f \in [1..n -> BOOLEAN] } : n \in 0..MaxWords }

\* has_target: the request has a 'target_words' field (target_words is its value).
SplitRequests ==
    { [text |-> "missing", cleaned |-> <<>>, has_target |-> TRUE, target_words |-> 0],
      [text |-> "blank", cleaned |-> <<>>, has_target |-> TRUE, target_words |-> 0] }
    \cup { [text |-> "text", cleaned |-> c, has_target |-> TRUE, target_words |-> t] :
             c \in CleanedTexts, t \in (0 - 1)..MaxTarget }
    \cup { [text |-> "text", cleaned |-> c, has_target |-> FALSE, target_words |-> 0] :
             c \in CleanedTexts }

DefaultTargetWords == 350

TargetWordsNoDefault(req) == req.target_words

\* data.get("target_words", 350)
TargetWords(req) == IF req.has_target THEN req.target_words ELSE DefaultTargetWords

ErrorResponseWithoutError(code, message) == [status |-> code, body |-> [message |-> message]]

\* send_error_response: the status and the body {"error": message}
ErrorResponse(code, message) == [status |-> code, body |-> [error |-> message]]

NoStoryPartsIgnored(story_parts) == FALSE

\* if not story_parts
NoStoryParts(story_parts) == story_parts = <<>>

\* do_POST of split_story.  The raw text is given by its cleaned form.
split_do_POST ==
    /\ spc = "request"
    /\ spc' = "done"
    /\ sresp' =
         IF sreq.text = "missing"
         THEN ErrorResponse(400, "Missing 'text' field in request")
         ELSE IF sreq.text = "blank"
         THEN ErrorResponse(400, "Text cannot be empty")
         ELSE LET story_parts == split_into_parts(sreq.cleaned, TargetWords(sreq))
                  total_words == SumWords(story_parts)
              IN  IF NoStoryParts(story_parts)
                  THEN ErrorResponse(400, "Could not create any story parts from text")
                  ELSE [status |-> 200,
                        body |-> [parts |-> story_parts,
                                  part_count |-> Len(story_parts),
                                  total_words |-> total_words,
                                  avg_words_per_part |-> IF story_parts # <<>>
                                                         THEN total_words \div Len(story_parts)
                                                         ELSE 0,
                                  target_words |-> TargetWords(sreq)]]
    /\ ssends' = ssends + 1
    /\ UNCHANGED sreq

\* The caller issues the same request once more; it still holds the response
\* to the previous call.
split_repeat ==
    /\ spc = "done"
    /\ spc' = "request"
    /\ ssends' = 0
    /\ UNCHANGED <<sreq, sresp>>

\* ========================================================= batch endpoints

SliceEndpoints == {"translate_text", "generate_tts", "generate_images"}
IsolatingEndpoints == {"generate_tts", "generate_images", "create_videos"}
Endpoints == SliceEndpoints \cup {"create_videos"}

(***************************************************************************)
(* An item of the list, by what the handler does with it:                  *)
(*   "ok"     a non-blank string; the external operation succeeds          *)
(*   "fail"   a non-blank string; the external operation raises            *)
(*   "blank"  "" or a string of whitespace                                 *)
(*   "null"   JSON null                                                    *)
(*   "nonstr" a JSON number other than 0 (truthy, no strip())              *)
(* For create_videos the item is the triple audio_files[i], image_files[i],*)
(* translated_parts[i]: "ok" and "blank" (blank subtitle text) compose,    *)
(* and "fail", "null" and "nonstr" (audio entry null or a number) make     *)
(* create_video raise.                                                     *)
(***************************************************************************)
ItemKinds == {"ok", "fail", "blank", "null", "nonstr"}

ItemLists == UNION { [1..n -> ItemKinds] : n \in 0..MaxParts }

\* start_idx = batch_index * batch_size
StartIdx(bi, bs) == bi * bs

\* end_idx = min(start_idx + batch_size, len(parts))
EndIdxNoClamp(bi, bs, n) == StartIdx(bi, bs) + bs
EndIdx(bi, bs, n) == Min(StartIdx(bi, bs) + bs, n)

\* has_more = end_idx < len(parts)
HasMoreOffByOne(end, n) == end <= n
HasMore(end, n) == end < n

\* batch_index + 1 if has_more else None: {} stands for None
NextBatchIndex(bi, has_more) == IF has_more THEN {bi + 1} ELSE {}

\* Python's parts[s:e]: the 0-based indices it selects from a list of n items.
PySlice(n, s, e) ==
    LET lo == IF s < 0 THEN Max(s + n, 0) ELSE Min(s, n)
        hi == IF e < 0 THEN Max(e + n, 0) ELSE Min(e, n)
    IN  [k \in 1..Max(hi - lo, 0) |-> lo + k - 1]

\* Python's list(range(s, e))
PyRange(s, e) == [k \in 1..Max(e - s, 0) |-> s + k - 1]

\* Python's seq[i]: the 0-based index it reads, or -1 for IndexError.
PyIndex(n, i) ==
    LET j == IF i < 0 THEN i + n ELSE i
    IN  IF 0 <= j /\ j < n THEN j ELSE 0 - 1

\* batch_parts = parts[start_idx:end_idx] (by index), or for create_videos
\* batch_range = list(range(start_idx, end_idx)) with each index as
\* audio_files[i] reads it.
BatchRange(ep, ps, bi, bs) ==
    LET n == Len(ps)
        s == StartIdx(bi, bs)
        e == EndIdx(bi, bs, n)
    IN  IF ep = "create_videos"
        THEN [k \in 1..Len(PyRange(s, e)) |-> PyIndex(n, PyRange(s, e)[k])]
        ELSE PySlice(n, s, e)

(***************************************************************************)
(* One iteration of the loop of do_POST over the item at 0-based index idx *)
(* (-1: the index raised IndexError): whether the external operation is    *)
(* invoked, the entry appended to the batch, and the status of the error   *)
(* response that ends the request (0: the loop goes on).                   *)
(***************************************************************************)
\* An entry of audio_batch, image_batch or video_batch: media says that the
\* media field is not null, error = "" that there is no 'error' field, size 1
\* stands for the length of the media.
Success(idx) == [media |-> TRUE, error |-> "", size |-> 1, item |-> idx]

FailureKeepsMedia(idx, message) == [media |-> TRUE, error |-> message, size |-> 1, item |-> idx]

Failure(idx, message) == [media |-> FALSE, error |-> message, size |-> 0, item |-> idx]
Translated(idx, t) == [text |-> t, item |-> idx]
NoEntry == [none |-> TRUE]

Outcome(c, e, a, m) == [call |-> c, entry |-> e, abort |-> a, message |-> m]

\* generate_tts and generate_images: the blank test, then the operation in a
\* try block of its own.
GenerateItemCallsOnBlank(kind, idx) ==
    IF kind \in {"blank", "null"}
    THEN Outcome(TRUE, Failure(idx, "external operation raised"), 0, "")
    ELSE IF kind = "nonstr"
    THEN Outcome(FALSE, NoEntry, 500, "Unexpected error")
    ELSE IF kind = "ok"
    THEN Outcome(TRUE, Success(idx), 0, "")
    ELSE Outcome(TRUE, Failure(idx, "external operation raised"), 0, "")

GenerateItem(kind, idx) ==
    IF kind \in {"blank", "null"}
    THEN Outcome(FALSE, Failure(idx, "Empty text"), 0, "")
    ELSE IF kind = "nonstr"
    THEN Outcome(FALSE, NoEntry, 500, "Unexpected error")
    ELSE IF kind = "ok"
    THEN Outcome(TRUE, Success(idx), 0, "")
    ELSE Outcome(TRUE, Failure(idx, "external operation raised"), 0, "")

\* translate_text: a blank item gives "", a failed translation ends the request.
TranslateItemLenient(kind, idx) ==
    IF kind \in {"blank", "null"}
    THEN Outcome(FALSE, Translated(idx, ""), 0, "")
    ELSE IF kind = "nonstr"
    THEN Outcome(FALSE, NoEntry, 500, "Unexpected error")
    ELSE IF kind = "ok"
    THEN Outcome(TRUE, Translated(idx, "translated"), 0, "")
    ELSE Outcome(TRUE, Translated(idx, ""), 0, "")

TranslateItem(kind, idx) ==
    IF kind \in {"blank", "null"}
    THEN Outcome(FALSE, Translated(idx, ""), 0, "")
    ELSE IF kind = "nonstr"
    THEN Outcome(FALSE, NoEntry, 500, "Unexpected error")
    ELSE IF kind = "ok"
    THEN Outcome(TRUE, Translated(idx, "translated"), 0, "")
    ELSE Outcome(TRUE, NoEntry, 500, "Translation failed at part")

\* create_videos: reading the three lists and create_video are in one try block.
VideoItem(kind, idx) ==
    IF idx < 0
    THEN Outcome(FALSE, Failure(idx, "list index out of range"), 0, "")
    ELSE IF kind \in {"ok", "blank"}
    THEN Outcome(TRUE, Success(idx), 0, "")
    ELSE Outcome(TRUE, Failure(idx, "create_video raised"), 0, "")

ItemOutcome(ep, kind, idx) ==
    IF ep = "create_videos" THEN VideoItem(kind, idx)
    ELSE IF ep = "translate_text" THEN TranslateItem(kind, idx)
    ELSE GenerateItem(kind, idx)

\* The response_data of a 200 response.
Envelope(b, bi, bs, n) ==
    LET e == EndIdx(bi, bs, n)
    IN  [batch |-> b,
         batch_index |-> bi,
         batch_size |-> bs,
         batch_start |-> StartIdx(bi, bs),
         batch_end |-> e,
         total_parts |-> n,
         has_more |-> HasMore(e, n),
         next_batch_index |-> NextBatchIndex(bi, HasMore(e, n))]

StaleBatch(b) == b

\* audio_batch = []: the batch is a local of do_POST, created for the request.
FreshBatch(b) == <<>>

\* The status of the rejection, 0 when the request passes validation.
\* create_videos tests neither the type nor the emptiness of its arrays: a
\* field that is a number makes len() raise (500).
ValidationError(ep, sh, ps) ==
    IF sh = "missing"
    THEN 400
    ELSE IF sh = "notlist"
    THEN IF ep = "create_videos" THEN 500 ELSE 400
    ELSE IF sh = "mismatch"
    THEN 400
    ELSE IF ep \in SliceEndpoints /\ Len(ps) = 0
    THEN 400
    ELSE 0

\* do_POST up to the loop: validation.
do_POST_validate ==
    /\ pc = "recv"
    /\ LET err == ValidationError(endpoint, shape, parts)
       IN  IF err # 0
           THEN /\ resp' = ErrorResponse(err, "request rejected")
                /\ sends' = sends + 1
                /\ pc' = "sent"
           ELSE /\ resp' = resp
                /\ sends' = sends
                /\ pc' = "loop"
    /\ pos' = 0
    /\ batch' = FreshBatch(batch)
    /\ opCalls' = <<>>
    /\ UNCHANGED <<endpoint, shape, parts, batch_index, batch_size, callerLog>>

\* One iteration of the loop over the window.
do_POST_item ==
    /\ pc = "loop"
    /\ pos < Len(BatchRange(endpoint, parts, batch_index, batch_size))
    /\ LET idx == BatchRange(endpoint, parts, batch_index, batch_size)[pos + 1]
           kind == IF idx < 0 THEN "null" ELSE parts[idx + 1]
           out == ItemOutcome(endpoint, kind, idx)
       IN  /\ opCalls' = IF out.call THEN Append(opCalls, idx) ELSE opCalls
           /\ IF out.abort # 0
              THEN /\ resp' = ErrorResponse(out.abort, out.message)
                   /\ sends' = sends + 1
                   /\ pc' = "sent"
                   /\ batch' = batch
              ELSE /\ batch' = Append(batch, out.entry)
                   /\ resp' = resp
                   /\ sends' = sends
                   /\ pc' = pc
    /\ pos' = pos + 1
    /\ UNCHANGED <<endpoint, shape, parts, batch_index, batch_size, callerLog>>

\* After the loop: the statistics of translate_text (len() of every part of
\* the window, which raises on null) and the 200 response.
do_POST_respond ==
    /\ pc = "loop"
    /\ pos = Len(BatchRange(endpoint, parts, batch_index, batch_size))
    /\ LET r == BatchRange(endpoint, parts, batch_index, batch_size)
       IN  resp' =
             IF endpoint = "translate_text" /\ \E k \in 1..Len(r) : parts[r[k] + 1] = "null"
             THEN ErrorResponse(500, "Unexpected error")
             ELSE [status |-> 200, body |-> Envelope(batch, batch_index, batch_size, Len(parts))]
    /\ sends' = sends + 1
    /\ pc' = "sent"
    /\ UNCHANGED <<endpoint, shape, parts, batch_index, batch_size, pos, batch, opCalls, callerLog>>

\* The caller: it records a 200 response and, while has_more is true,
\* re-invokes the endpoint with next_batch_index.
MaxCalls == MaxParts + 2

caller_next ==
    /\ pc = "sent"
    /\ IF resp.status = 200
       THEN /\ callerLog' = Append(callerLog, [batch_index |-> resp.body.batch_index,
                                               batch_start |-> resp.body.batch_start,
                                               batch_end |-> resp.body.batch_end,
                                               has_more |-> resp.body.has_more])
            /\ IF resp.body.has_more /\ Len(callerLog) + 1 < MaxCalls
               THEN /\ batch_index' \in resp.body.next_batch_index
                    /\ sends' = 0
                    /\ pc' = "recv"
               ELSE /\ batch_index' = batch_index
                    /\ sends' = sends
                    /\ pc' = "done"
       ELSE /\ callerLog' = callerLog
            /\ batch_index' = batch_index
            /\ sends' = sends
            /\ pc' = "done"
    /\ UNCHANGED <<endpoint, shape, parts, batch_size, pos, batch, opCalls, resp>>

\* ======================================================= create_long_video

IdleRecord == [pc |-> "idle"]

TextIdle ==
    tr = IdleRecord /\ ch = IdleRecord /\ tg = IdleRecord /\ sb = IdleRecord /\ cl = IdleRecord

(***************************************************************************)
(* An entry of video_files, by what concatenate_videos does with it:       *)
(*   "ok"          decodes, and the reader yields frames                   *)
(*   "unreadable"  decodes, but imageio cannot read it (skipped)           *)
(*   "undecodable" no 'video' field or invalid base64: line 68 raises      *)
(* A temp file is a number: k for the file of entry k, 0 for the output.   *)
(***************************************************************************)
VideoEntryKinds == {"ok", "unreadable", "undecodable"}
EncodeOutcomes == {"ok", "fail", "reencode_ok", "reencode_fail"}
OutputFile == 0

LongRequests ==
    { [pc |-> "recv", shape |-> sh, files |-> <<>>, enc |-> "ok", i |-> 0, temp_files |-> <<>>,
       output_bound |-> FALSE, disk |-> {}, raised |-> FALSE, sent |-> <<>>] :
         sh \in {"missing", "notlist"} }
    \cup { [pc |-> "recv", shape |-> "list", files |-> f, enc |-> e, i |-> 0,
            temp_files |-> <<>>, output_bound |-> FALSE, disk |-> {}, raised |-> FALSE,
            sent |-> <<>>] :
              f \in UNION { [1..n -> VideoEntryKinds] : n \in 0..MaxParts }, e \in EncodeOutcomes }

SeqRange(q) == { q[k] : k \in 1..Len(q) }

\* do_POST up to the call of concatenate_videos.
lv_validate ==
    /\ lv.pc = "recv"
    /\ lv' = IF lv.shape = "missing"
             THEN [lv EXCEPT !.pc = "done",
                             !.sent = Append(@, ErrorResponse(400, "Missing 'video_files' field in request"))]
             ELSE IF lv.shape = "notlist" \/ Len(lv.files) = 0
             THEN [lv EXCEPT !.pc = "done",
                             !.sent = Append(@, ErrorResponse(400, "video_files must be a non-empty array"))]
             ELSE [lv EXCEPT !.pc = "decode"]

\* concatenate_videos: one iteration of the loop that decodes an entry and
\* writes it to a temp file of its own.
lv_decode ==
    /\ lv.pc = "decode"
    /\ lv.i < Len(lv.files)
    /\ lv' = IF lv.files[lv.i + 1] = "undecodable"
             THEN [lv EXCEPT !.pc = "finally", !.raised = TRUE]
             ELSE [lv EXCEPT !.i = @ + 1,
                             !.disk = @ \cup {lv.i + 1},
                             !.temp_files = Append(@, lv.i + 1)]

\* concatenate_videos: the output file, created after the loop.
lv_output ==
    /\ lv.pc = "decode"
    /\ lv.i = Len(lv.files)
    /\ lv' = [lv EXCEPT !.pc = "encode", !.output_bound = TRUE, !.disk = @ \cup {OutputFile}]

\* concatenate_videos: reading the frames (an unreadable video is skipped),
\* "No frames to write", mimwrite and the re-encoding of a large result.
lv_encode ==
    /\ lv.pc = "encode"
    /\ lv' = [lv EXCEPT !.pc = "finally",
                        !.raised = \/ \A k \in 1..Len(lv.files) : lv.files[k] # "ok"
                                   \/ lv.enc \in {"fail", "reencode_fail"}]

\* concatenate_videos: the finally block.  temp_files + [output_path] raises
\* UnboundLocalError before anything is unlinked when output_path was never
\* assigned.
lv_finally ==
    /\ lv.pc = "finally"
    /\ lv' = IF lv.output_bound
             THEN [lv EXCEPT !.pc = "respond",
                             !.disk = @ \ (SeqRange(lv.temp_files) \cup {OutputFile})]
             ELSE [lv EXCEPT !.pc = "respond", !.raised = TRUE]

\* do_POST after concatenate_videos: the 200 response, or the exception
\* re-raised into the outer handler (500).
LongResponse(raised, n) ==
    IF raised
    THEN ErrorResponse(500, "Unexpected error: Video concatenation failed")
    ELSE [status |-> 200, body |-> [video |-> "base64", format |-> "mp4", total_parts |-> n]]

lv_respond ==
    /\ lv.pc = "respond"
    /\ lv' = [lv EXCEPT !.pc = "done", !.sent = Append(@, LongResponse(lv.raised, Len(lv.files)))]

LongNext ==
    \/ lv_validate /\ UNCHANGED <<svars, bvars, cv, md, rt, pdf, tvars>>
    \/ lv_decode /\ UNCHANGED <<svars, bvars, cv, md, rt, pdf, tvars>>
    \/ lv_output /\ UNCHANGED <<svars, bvars, cv, md, rt, pdf, tvars>>
    \/ lv_encode /\ UNCHANGED <<svars, bvars, cv, md, rt, pdf, tvars>>
    \/ lv_finally /\ UNCHANGED <<svars, bvars, cv, md, rt, pdf, tvars>>
    \/ lv_respond /\ UNCHANGED <<svars, bvars, cv, md, rt, pdf, tvars>>

\* ==================================================== create_videos temp files

(***************************************************************************)
(* What happens inside one call of create_video, in the order of the code: *)
(*   "decode_fail"       decoding the inputs or building the frames raises *)
(*                       (before any temp file exists)                     *)
(*   "audio_write_fail"  audio_file.write(audio_bytes) raises              *)
(*   "encode_fail"       imageio.mimwrite raises                           *)
(*   "read_fail"         reading the encoded file raises                   *)
(*   "ok"                the video is returned                             *)
(*   "reencode_ok"       the video is over 3MB and reencode_video succeeds *)
(*   "reencode_fail"     the video is over 3MB and reencode_video raises   *)
(* A temp file is <<call, suffix>>.                                        *)
(***************************************************************************)
VideoOutcomes == {"decode_fail", "audio_write_fail", "encode_fail", "read_fail", "ok",
                  "reencode_ok", "reencode_fail"}

VideoCalls ==
    { [pc |-> "prepare", outs |-> o, k |-> 1, disk |-> {}, raised |-> FALSE, results |-> <<>>] :
        o \in UNION { [1..n -> VideoOutcomes] : n \in 1..MaxParts } }

\* create_video has returned (r = "ok") or raised (r = "error") into the loop
\* of do_POST, which goes on with the next item.
VideoReturn(c, r) ==
    [c EXCEPT !.pc = IF c.k < Len(c.outs) THEN "prepare" ELSE "done",
              !.k = IF c.k < Len(c.outs) THEN @ + 1 ELSE @,
              !.raised = FALSE,
              !.results = Append(@, r)]

\* create_video up to the temp files: decoding, the image, the frames.
cv_prepare ==
    /\ cv.pc = "prepare"
    /\ cv' = IF cv.outs[cv.k] = "decode_fail"
             THEN VideoReturn(cv, "error")
             ELSE [cv EXCEPT !.pc = "temp"]

\* create_video: the two temp files, created and written before the try
\* statement; an exception here leaves the function without the finally block.
cv_tempfiles ==
    /\ cv.pc = "temp"
    /\ cv' = IF cv.outs[cv.k] = "audio_write_fail"
             THEN VideoReturn([cv EXCEPT !.disk = @ \cup {<<cv.k, "mp4">>, <<cv.k, "mp3">>}],
                              "error")
             ELSE [cv EXCEPT !.pc = "encode",
                             !.disk = @ \cup {<<cv.k, "mp4">>, <<cv.k, "mp3">>}]

\* create_video: mimwrite and reading the result, inside the try statement.
cv_encode ==
    /\ cv.pc = "encode"
    /\ cv' = IF cv.outs[cv.k] \in {"encode_fail", "read_fail"}
             THEN [cv EXCEPT !.pc = "finally", !.raised = TRUE]
             ELSE IF cv.outs[cv.k] \in {"reencode_ok", "reencode_fail"}
             THEN [cv EXCEPT !.pc = "reencode", !.disk = @ \cup {<<cv.k, "reencode">>}]
             ELSE [cv EXCEPT !.pc = "finally"]

\* reencode_video: its temp file exists; mimwrite and read, then its finally.
cv_reencode ==
    /\ cv.pc = "reencode"
    /\ cv' = [cv EXCEPT !.pc = "finally",
                        !.disk = @ \ {<<cv.k, "reencode">>},
                        !.raised = (cv.outs[cv.k] = "reencode_fail")]

\* create_video: the finally block unlinks the video and the audio file.
cv_finally ==
    /\ cv.pc = "finally"
    /\ cv' = VideoReturn([cv EXCEPT !.disk = @ \ {<<cv.k, "mp4">>, <<cv.k, "mp3">>}],
                         IF cv.raised THEN "error" ELSE "ok")

VideoNext ==
    \/ cv_prepare /\ UNCHANGED <<svars, bvars, lv, md, rt, pdf, tvars>>
    \/ cv_tempfiles /\ UNCHANGED <<svars, bvars, lv, md, rt, pdf, tvars>>
    \/ cv_encode /\ UNCHANGED <<svars, bvars, lv, md, rt, pdf, tvars>>
    \/ cv_reencode /\ UNCHANGED <<svars, bvars, lv, md, rt, pdf, tvars>>
    \/ cv_finally /\ UNCHANGED <<svars, bvars, lv, md, rt, pdf, tvars>>

\* ========================================================= generate_metadata

(***************************************************************************)
(* An element of translated_parts: "text" a string with words, "blank" an  *)
(* empty or whitespace string, "nonstr" a JSON value that is not a string  *)
(* (number, null, object, array).                                          *)
(***************************************************************************)
PartKinds == {"text", "blank", "nonstr"}

MetadataRequests ==
    { [pc |-> "recv", shape |-> sh, parts |-> <<>>, i |-> 0, metadata_list |-> <<>>,
       sent |-> <<>>] : sh \in {"missing", "notlist"} }
    \cup { [pc |-> "recv", shape |-> "list", parts |-> p, i |-> 0, metadata_list |-> <<>>,
            sent |-> <<>>] : p \in UNION { [1..n -> PartKinds] : n \in 0..MaxParts } }

md_validate ==
    /\ md.pc = "recv"
    /\ md' = IF md.shape = "missing"
             THEN [md EXCEPT !.pc = "done",
                             !.sent = Append(@, ErrorResponse(400, "Missing 'translated_parts' field in request"))]
             ELSE IF md.shape = "notlist"
             THEN [md EXCEPT !.pc = "done",
                             !.sent = Append(@, ErrorResponse(400, "'translated_parts' must be an array"))]
             ELSE IF Len(md.parts) = 0
             THEN [md EXCEPT !.pc = "done",
                             !.sent = Append(@, ErrorResponse(400, "translated_parts array cannot be empty"))]
             ELSE [md EXCEPT !.pc = "parts"]

\* generate_part_metadata uses string methods of the element: it raises on an
\* element that is not a string, and the loop substitutes the default metadata.
PartMetadata(kind, part_number) ==
    IF kind = "nonstr"
    THEN [part_number |-> part_number, source |-> "default"]
    ELSE [part_number |-> part_number, source |-> "generated"]

md_part ==
    /\ md.pc = "parts"
    /\ md.i < Len(md.parts)
    /\ md' = [md EXCEPT !.i = @ + 1,
                        !.metadata_list = Append(@, PartMetadata(md.parts[md.i + 1], md.i + 1))]

\* generate_full_metadata starts with " ".join(translated_parts), outside any
\* try of its own: a TypeError goes to the outer handler of do_POST.
FullMetadataRaises(p) == \E k \in 1..Len(p) : p[k] = "nonstr"

MetadataResponse(p, metadata_list) ==
    IF FullMetadataRaises(p)
    THEN ErrorResponse(500, "Unexpected error: sequence item: expected str instance")
    ELSE [status |-> 200,
          body |-> [part_metadata |-> metadata_list, full_metadata |-> "full",
                    total_parts |-> Len(p)]]

md_respond ==
    /\ md.pc = "parts"
    /\ md.i = Len(md.parts)
    /\ md' = [md EXCEPT !.pc = "done",
                        !.sent = Append(@, MetadataResponse(md.parts, md.metadata_list))]

MetadataNext ==
    \/ md_validate /\ UNCHANGED <<svars, bvars, lv, cv, rt, pdf, tvars>>
    \/ md_part /\ UNCHANGED <<svars, bvars, lv, cv, rt, pdf, tvars>>
    \/ md_respond /\ UNCHANGED <<svars, bvars, lv, cv, rt, pdf, tvars>>

\* ================================= generate_image / generate_thumbnail (retry)

MaxGenerations == 2

(***************************************************************************)
(* What one requests.post can give: a response with a status code (and,    *)
(* for a 200, bytes that are or are not an image), or an exception         *)
(* (timeout, connection error).                                            *)
(***************************************************************************)
ApiStatuses == {200, 503, 404, 429, 500}
ApiOutcomes ==
    { [kind |-> "response", status |-> s, valid |-> FALSE] : s \in ApiStatuses }
    \cup { [kind |-> "response", status |-> 200, valid |-> TRUE] }
    \cup { [kind |-> "raise", status |-> 0, valid |-> FALSE] }

RetryFunctions == {"generate_image", "generate_thumbnail"}

\* generate_image is called once per item of a batch; generate_thumbnail once
\* per request, from a do_POST that first checks 'title'.
RetryInits ==
    { [pc |-> "start", fn |-> "generate_image", shape |-> "title", n |-> n, k |-> 1,
       calls |-> <<>>, results |-> <<>>, sent |-> <<>>] : n \in 1..MaxGenerations }
    \cup { [pc |-> "recv", fn |-> "generate_thumbnail", shape |-> sh, n |-> 1, k |-> 1,
            calls |-> <<>>, results |-> <<>>, sent |-> <<>>] : sh \in {"missing", "title"} }

\* generate_thumbnail.do_POST up to the call of generate_thumbnail.
rt_validate ==
    /\ rt.pc = "recv"
    /\ rt' = IF rt.shape = "missing"
             THEN [rt EXCEPT !.pc = "done",
                             !.sent = Append(@, ErrorResponse(400, "Missing 'title' field in request"))]
             ELSE [rt EXCEPT !.pc = "start"]

ShouldRetryOnAnyError(status) == status # 200

\* if response.status_code == 503
ShouldRetry(status) == status = 503

\* The generation has returned (res = "image") or raised (res = "error").
RetryFinish(r, res) ==
    [r EXCEPT !.pc = IF r.fn = "generate_thumbnail" THEN "respond"
                     ELSE IF r.k < r.n THEN "start" ELSE "done",
              !.k = IF r.fn = "generate_image" /\ r.k < r.n THEN @ + 1 ELSE @,
              !.calls = <<>>,
              !.results = Append(@, [calls |-> r.calls, result |-> res])]

\* The first requests.post; an exception of it leaves the function.
rt_first_post ==
    /\ rt.pc = "start"
    /\ \E o \in ApiOutcomes :
         rt' = IF o.kind = "raise"
               THEN RetryFinish([rt EXCEPT !.calls = <<o>>], "error")
               ELSE IF ShouldRetry(o.status)
               THEN [rt EXCEPT !.pc = "retry", !.calls = <<o>>]
               ELSE [rt EXCEPT !.pc = "check", !.calls = <<o>>]

\* The second requests.post, after the sleep.
rt_second_post ==
    /\ rt.pc = "retry"
    /\ \E o \in ApiOutcomes :
         rt' = IF o.kind = "raise"
               THEN RetryFinish([rt EXCEPT !.calls = Append(@, o)], "error")
               ELSE [rt EXCEPT !.pc = "check", !.calls = Append(@, o)]

\* if response.status_code != 200: raise; then the bytes are opened as an image.
rt_check ==
    /\ rt.pc = "check"
    /\ rt' = RetryFinish(rt, IF rt.calls[Len(rt.calls)].status # 200
                                  \/ ~rt.calls[Len(rt.calls)].valid
                             THEN "error" ELSE "image")

ThumbnailResponse(result) ==
    IF result = "image"
    THEN [status |-> 200, body |-> [thumbnail |-> "base64", format |-> "jpeg"]]
    ELSE ErrorResponse(500, "Unexpected error: Thumbnail generation failed")

\* generate_thumbnail.do_POST after generate_thumbnail.
rt_respond ==
    /\ rt.pc = "respond"
    /\ rt' = [rt EXCEPT !.pc = "done",
                        !.sent = Append(@, ThumbnailResponse(rt.results[1].result))]

RetryNext ==
    \/ rt_validate /\ UNCHANGED <<svars, bvars, lv, cv, md, pdf, tvars>>
    \/ rt_first_post /\ UNCHANGED <<svars, bvars, lv, cv, md, pdf, tvars>>
    \/ rt_second_post /\ UNCHANGED <<svars, bvars, lv, cv, md, pdf, tvars>>
    \/ rt_check /\ UNCHANGED <<svars, bvars, lv, cv, md, pdf, tvars>>
    \/ rt_respond /\ UNCHANGED <<svars, bvars, lv, cv, md, pdf, tvars>>

\* ============================================================== extract_text

\* if total_pages > 100
MaxPages == 100

PageCounts == {0, 1, MaxPages - 1, MaxPages, MaxPages + 1}

(***************************************************************************)
(* A request, by what do_POST sees of it, in the order it looks:           *)
(*   shape     "too_large" Content-Length over 5MB, "badjson", "missing"   *)
(*             (no 'file'), "nonstr" ('file' is not a string), "badb64"    *)
(*             (b64decode raises), "bytes" (decoded)                       *)
(*   magic     the bytes start with %PDF                                   *)
(*   reader    what PyPDF2.PdfReader does with the bytes: "ok",            *)
(*             "PdfReadError", "error" (any other exception)               *)
(*   encrypted reader.is_encrypted                                         *)
(*   pages     len(reader.pages)                                           *)
(*   has_text  some page yields text that is not blank                     *)
(***************************************************************************)
PdfShapes == {"too_large", "badjson", "missing", "nonstr", "badb64", "bytes"}
ReaderOutcomes == {"ok", "PdfReadError", "error"}

PdfRequests ==
    { [pc |-> "recv", shape |-> sh, magic |-> FALSE, reader |-> "ok", encrypted |-> FALSE,
       pages |-> 0, has_text |-> FALSE, sent |-> <<>>] : sh \in PdfShapes \ {"bytes"} }
    \cup { r \in [pc : {"recv"}, shape : {"bytes"}, magic : BOOLEAN, reader : ReaderOutcomes,
                  encrypted : BOOLEAN, pages : PageCounts, has_text : BOOLEAN,
                  sent : {<<>>}] : r.has_text => r.pages >= 1 }

PdfReply(p, code, message) ==
    [p EXCEPT !.pc = "done", !.sent = Append(@, ErrorResponse(code, message))]

\* do_POST up to the decoded bytes.
pdf_receive ==
    /\ pdf.pc = "recv"
    /\ pdf' = IF pdf.shape = "too_large"
              THEN PdfReply(pdf, 413, "Request body too large. Max 5MB.")
              ELSE IF pdf.shape = "badjson"
              THEN PdfReply(pdf, 400, "Invalid JSON")
              ELSE IF pdf.shape = "missing"
              THEN PdfReply(pdf, 400, "Missing 'file' field in request")
              ELSE IF pdf.shape = "nonstr"
              THEN PdfReply(pdf, 400, "File must be base64 encoded string")
              ELSE IF pdf.shape = "badb64"
              THEN PdfReply(pdf, 400, "Invalid base64 encoding")
              ELSE [pdf EXCEPT !.pc = "magic"]

\* if not pdf_bytes.startswith(b'%PDF')
pdf_magic ==
    /\ pdf.pc = "magic"
    /\ pdf' = IF ~pdf.magic
              THEN PdfReply(pdf, 400, "File is not a valid PDF")
              ELSE [pdf EXCEPT !.pc = "open"]

\* PyPDF2.PdfReader(pdf_file) and the is_encrypted test, in the inner try.
pdf_open ==
    /\ pdf.pc = "open"
    /\ pdf' = IF pdf.reader = "PdfReadError"
              THEN PdfReply(pdf, 400, "Invalid or corrupted PDF")
              ELSE IF pdf.reader = "error"
              THEN PdfReply(pdf, 500, "Error reading PDF")
              ELSE IF pdf.encrypted
              THEN PdfReply(pdf, 400, "PDF is password-protected. Please upload an unencrypted PDF.")
              ELSE [pdf EXCEPT !.pc = "pages"]

TooManyPagesInclusive(total_pages) == total_pages >= MaxPages

\* if total_pages > 100
TooManyPages(total_pages) == total_pages > MaxPages

pdf_pages ==
    /\ pdf.pc = "pages"
    /\ pdf' = IF TooManyPages(pdf.pages)
              THEN PdfReply(pdf, 400, "PDF has too many pages. Maximum 100 pages supported. Please split your PDF.")
              ELSE [pdf EXCEPT !.pc = "extract"]

\* The page loop (a page that fails is skipped), the empty-text test and the
\* success response.
pdf_extract ==
    /\ pdf.pc = "extract"
    /\ pdf' = IF ~pdf.has_text
              THEN PdfReply(pdf, 400, "No text could be extracted. PDF might contain only images or be corrupted.")
              ELSE [pdf EXCEPT !.pc = "done",
                               !.sent = Append(@, [status |-> 200,
                                                   body |-> [text |-> "text",
                                                             pages |-> pdf.pages]])]

PdfNext ==
    \/ pdf_receive /\ UNCHANGED <<svars, bvars, lv, cv, md, rt, tvars>>
    \/ pdf_magic /\ UNCHANGED <<svars, bvars, lv, cv, md, rt, tvars>>
    \/ pdf_open /\ UNCHANGED <<svars, bvars, lv, cv, md, rt, tvars>>
    \/ pdf_pages /\ UNCHANGED <<svars, bvars, lv, cv, md, rt, tvars>>
    \/ pdf_extract /\ UNCHANGED <<svars, bvars, lv, cv, md, rt, tvars>>

\* ================================================= translate_text (fallback)

MaxTexts == 3

\* The three methods of translate_text, in the order of the code.
Backends == <<"google", "libretranslate", "mymemory">>

\* What a backend does with a text: it returns a translation, it returns an
\* empty string, or it raises.
BackendOutcomes == {"value", "empty", "raise"}

TranslateInits ==
    { [pc |-> "google", n |-> n, k |-> 1, invoked |-> <<>>, results |-> <<>>] : n \in 1..MaxTexts }

FallsThroughOnEmpty(outcome) == outcome # "value"

\* except Exception: the next method is tried
FallsThrough(outcome) == outcome = "raise"

\* translate_text has returned the value of a backend or raised.
TranslateFinish(r, inv, res) ==
    [r EXCEPT !.pc = IF r.k < r.n THEN "google" ELSE "done",
              !.k = IF r.k < r.n THEN @ + 1 ELSE @,
              !.invoked = <<>>,
              !.results = Append(@, [invoked |-> inv, result |-> res])]

\* One method: its try block returns what the backend returns; its except
\* clause goes on to the method named next ("raise" after the last one).
TryBackend(r, name, o, next) ==
    LET inv == Append(r.invoked, [backend |-> name, outcome |-> o])
    IN  IF ~FallsThrough(o)
        THEN TranslateFinish(r, inv, [raised |-> FALSE, from |-> name, value |-> o])
        ELSE IF next = "raise"
        THEN TranslateFinish(r, inv, [raised |-> TRUE, from |-> "none", value |-> "raise"])
        ELSE [r EXCEPT !.pc = next, !.invoked = inv]

\* Method 1: Google Translate
tr_google ==
    /\ tr.pc = "google"
    /\ \E o \in BackendOutcomes : tr' = TryBackend(tr, "google", o, "libretranslate")

\* Method 2: LibreTranslate
tr_libretranslate ==
    /\ tr.pc = "libretranslate"
    /\ \E o \in BackendOutcomes : tr' = TryBackend(tr, "libretranslate", o, "mymemory")

\* Method 3: MyMemory, and the raise after it
tr_mymemory ==
    /\ tr.pc = "mymemory"
    /\ \E o \in BackendOutcomes : tr' = TryBackend(tr, "mymemory", o, "raise")

TranslateNext ==
    \/ tr_google /\ UNCHANGED <<svars, bvars, lv, cv, md, rt, pdf, ch, tg, sb, cl>>
    \/ tr_libretranslate /\ UNCHANGED <<svars, bvars, lv, cv, md, rt, pdf, ch, tg, sb, cl>>
    \/ tr_mymemory /\ UNCHANGED <<svars, bvars, lv, cv, md, rt, pdf, ch, tg, sb, cl>>

\* ====================================== translate_with_mymemory (chunking)

\* max_chars = 500
MaxChars == 500

MaxSentences == 3

\* The lengths of the pieces the text splits into (0: a piece that is empty
\* after strip()).
SentenceLengths ==
    {0, 1, MaxChars \div 2 - 1, MaxChars \div 2, MaxChars - 1, MaxChars, MaxChars + 1}

RECURSIVE SumLengths(_, _)
SumLengths(lens, idxs) ==
    IF idxs = <<>> THEN 0 ELSE lens[Head(idxs)] + SumLengths(lens, Tail(idxs))

\* len(' '.join(chunk)) for a chunk given by the indices of its sentences.
JoinedLength(lens, idxs) == IF idxs = <<>> THEN 0 ELSE SumLengths(lens, idxs) + Len(idxs) - 1

\* len(text): the pieces with one separator between neighbours.
TextLength(lens) == JoinedLength(lens, [i \in 1..Len(lens) |-> i])

ChunkInits ==
    { [pc |-> "start", sentences |-> l, i |-> 0, current_chunk |-> <<>>, current_length |-> 0,
       chunks |-> <<>>, whole |-> FALSE] :
        l \in UNION { [1..n -> SentenceLengths] : n \in 1..MaxSentences } }

\* if len(text) <= max_chars: the whole text is one call
ch_start ==
    /\ ch.pc = "start"
    /\ ch' = IF TextLength(ch.sentences) <= MaxChars
             THEN [ch EXCEPT !.pc = "done", !.whole = TRUE]
             ELSE [ch EXCEPT !.pc = "loop"]

\* One iteration of the loop over the sentences.
ch_sentence ==
    /\ ch.pc = "loop"
    /\ ch.i < Len(ch.sentences)
    /\ LET k == ch.i + 1
           n == ch.sentences[k]
       IN  ch' = IF n = 0
                 THEN [ch EXCEPT !.i = k]
                 ELSE IF ch.current_length + n > MaxChars /\ ch.current_chunk # <<>>
                 THEN [ch EXCEPT !.i = k,
                                 !.chunks = Append(@, ch.current_chunk),
                                 !.current_chunk = <<k>>,
                                 !.current_length = n]
                 ELSE [ch EXCEPT !.i = k,
                                 !.current_chunk = Append(@, k),
                                 !.current_length = @ + n + 1]

\* After the loop: the remaining chunk.
ch_finish ==
    /\ ch.pc = "loop"
    /\ ch.i = Len(ch.sentences)
    /\ ch' = [ch EXCEPT !.pc = "done",
                        !.chunks = IF ch.current_chunk # <<>>
                                   THEN Append(@, ch.current_chunk) ELSE @,
                        !.current_chunk = <<>>]

ChunkNext ==
    \/ ch_start /\ UNCHANGED <<svars, bvars, lv, cv, md, rt, pdf, tr, tg, sb, cl>>
    \/ ch_sentence /\ UNCHANGED <<svars, bvars, lv, cv, md, rt, pdf, tr, tg, sb, cl>>
    \/ ch_finish /\ UNCHANGED <<svars, bvars, lv, cv, md, rt, pdf, tr, tg, sb, cl>>

\* ---------------------------------------------------------- create_videos.py: add_subtitle

\* The character limit of the line test, len(current_line + word) < 40.
LineChars == 40

\* The number of stored lines at which the loop stops, len(lines) >= 2.
StoredLines == 2

\* The largest number of words of a subtitle.
MaxSubtitleWords == 4

\* text.split(): the words of the subtitle, each given by its length; a word
\* of split() is never empty.
WordLengths ==
    {1, LineChars \div 2 - 1, LineChars \div 2, LineChars - 2, LineChars - 1, LineChars,
     LineChars + 5}

\* len(current_line): every word of the line under construction is followed
\* by one space.
CurrentLineLength(lens, idxs) == SumLengths(lens, idxs) + Len(idxs)

\* The line test of the loop, len(current_line + word) < 40.
Fits(lens, idxs, w) == CurrentLineLength(lens, idxs) + lens[w] < LineChars

SubtitleInits ==
    { [pc |-> "loop", words |-> l, i |-> 0, lines |-> <<>>, current_line |-> <<>>] :
        l \in UNION { [1..n -> WordLengths] : n \in 1..MaxSubtitleWords } }

\* one iteration of "for word in words"; a line is a sequence of word indices
sb_word ==
    /\ sb.pc = "loop"
    /\ sb.i < Len(sb.words)
    /\ LET w == sb.i + 1
           stored == IF sb.current_line # <<>>
                     THEN Append(sb.lines, sb.current_line) ELSE sb.lines
       IN IF Fits(sb.words, sb.current_line, w)
          THEN sb' = [sb EXCEPT !.i = w, !.current_line = Append(@, w)]
          ELSE sb' = [sb EXCEPT !.i = w,
                                !.lines = stored,
                                !.current_line = <<w>>,
                                !.pc = IF Len(stored) >= StoredLines THEN "last" ELSE "loop"]

\* after the loop or its break: if current_line: lines.append(current_line.strip())
sb_finish ==
    /\ \/ sb.pc = "loop" /\ sb.i = Len(sb.words)
       \/ sb.pc = "last"
    /\ sb' = [sb EXCEPT !.pc = "done",
                        !.lines = IF sb.current_line # <<>>
                                  THEN Append(@, sb.current_line) ELSE @,
                        !.current_line = <<>>]

SubtitleNext ==
    \/ sb_word /\ UNCHANGED <<svars, bvars, lv, cv, md, rt, pdf, tr, ch, tg, cl>>
    \/ sb_finish /\ UNCHANGED <<svars, bvars, lv, cv, md, rt, pdf, tr, ch, tg, cl>>

\* ---------------------------------------------------------- split_story.py: clean_transcript

\* The largest number of fragments of a transcript.
MaxPieces == 3

\* A transcript is a sequence of tokens: the brackets, one whitespace
\* character " ", the letters of the markers ("MU" "SIC" is MUSIC), a
\* timestamp, a speaker label, a removal phrase and a story word.
Pieces ==
    { <<"[", "MU">>, <<"SIC", "]">>, <<"[", "SFX", "]">>, <<"[", "SOUND">>, <<"EFFECT", "]">>,
      <<"[">>, <<"]">>, <<" ">>, <<"x">>, <<"0:12">>, <<"Host:">>, <<"let's get into it.">> }

\* The concatenation of a sequence of sequences.
RECURSIVE Flatten(_)
Flatten(qs) == IF qs = <<>> THEN <<>> ELSE Head(qs) \o Flatten(Tail(qs))

\* text: the fragments of a transcript one after the other.
Transcript(fragments) == Flatten(fragments)

IsAt(t, i, pat) == i + Len(pat) - 1 <= Len(t) /\ SubSeq(t, i, i + Len(pat) - 1) = pat

\* The tokens that end with a character of \w: no \b follows them before a letter.
WordEnding == {"MU", "SIC", "SFX", "SOUND", "EFFECT", "x", "0:12"}

\* re.sub(r'\[?\d{1,2}:\d{2}\]?', '', text): a timestamp goes with the bracket
\* before it and the bracket after it, matches taken from left to right.
RECURSIVE RemoveTimestamps(_, _)
RemoveTimestamps(t, i) ==
    IF i > Len(t) THEN <<>>
    ELSE IF IsAt(t, i, <<"[", "0:12", "]">>) THEN RemoveTimestamps(t, i + 3)
    ELSE IF IsAt(t, i, <<"[", "0:12">>) THEN RemoveTimestamps(t, i + 2)
    ELSE IF IsAt(t, i, <<"0:12", "]">>) THEN RemoveTimestamps(t, i + 2)
    ELSE IF t[i] = "0:12" THEN RemoveTimestamps(t, i + 1)
    ELSE <<t[i]>> \o RemoveTimestamps(t, i + 1)

\* The index after the run of whitespace that starts at i.
RECURSIVE SkipSpaces(_, _)
SkipSpaces(t, i) == IF i <= Len(t) /\ t[i] = " " THEN SkipSpaces(t, i + 1) ELSE i

\* re.sub(r'\b(Host|Guest|Narrator|Speaker \d+):\s*', '', text): a label at a
\* word boundary goes with the whitespace after it.
RECURSIVE RemoveLabels(_, _)
RemoveLabels(t, i) ==
    IF i > Len(t) THEN <<>>
    ELSE IF t[i] = "Host:" /\ (i = 1 \/ t[i - 1] \notin WordEnding)
         THEN RemoveLabels(t, SkipSpaces(t, i + 1))
         ELSE <<t[i]>> \o RemoveLabels(t, i + 1)

\* for phrase in removal_phrases: text = re.sub(phrase, '', text)
RemovePhrases(t) == SelectSeq(t, LAMBDA c : c # "let's get into it.")

\* r'\[MUSIC\]|\[SOUND EFFECT\]|\[SFX\]|\[AUDIO\]'
Markers ==
    { <<"[", "MU", "SIC", "]">>, <<"[", "SOUND", " ", "EFFECT", "]">>, <<"[", "SFX", "]">> }

MarkerAt(t, i) == \E m \in Markers : IsAt(t, i, m)

\* re.sub(markers, '', text): one pass, matches taken from left to right
RECURSIVE RemoveMarkers(_, _)
RemoveMarkers(t, i) ==
    IF i > Len(t) THEN <<>>
    ELSE IF MarkerAt(t, i)
         THEN RemoveMarkers(t, i + Len(CHOOSE m \in Markers : IsAt(t, i, m)))
         ELSE <<t[i]>> \o RemoveMarkers(t, i + 1)

\* re.sub(r'\s+', ' ', text)
RECURSIVE CollapseSpaces(_, _)
CollapseSpaces(t, i) ==
    IF i > Len(t) THEN <<>>
    ELSE IF t[i] = " " THEN <<" ">> \o CollapseSpaces(t, SkipSpaces(t, i))
    ELSE <<t[i]>> \o CollapseSpaces(t, i + 1)

\* text.strip()
RECURSIVE Strip(_)
Strip(t) ==
    IF t = <<>> THEN <<>>
    ELSE IF Head(t) = " " THEN Strip(Tail(t))
    ELSE IF t[Len(t)] = " " THEN Strip(SubSeq(t, 1, Len(t) - 1))
    ELSE t

CleanStart(t) == [pc |-> "timestamps", input |-> t, text |-> t]

cl_timestamps ==
    /\ cl.pc = "timestamps"
    /\ cl' = [cl EXCEPT !.pc = "labels", !.text = RemoveTimestamps(@, 1)]

cl_labels ==
    /\ cl.pc = "labels"
    /\ cl' = [cl EXCEPT !.pc = "phrases", !.text = RemoveLabels(@, 1)]

cl_phrases ==
    /\ cl.pc = "phrases"
    /\ cl' = [cl EXCEPT !.pc = "markers", !.text = RemovePhrases(@)]

cl_markers ==
    /\ cl.pc = "markers"
    /\ cl' = [cl EXCEPT !.pc = "whitespace", !.text = RemoveMarkers(@, 1)]

cl_whitespace ==
    /\ cl.pc = "whitespace"
    /\ cl' = [cl EXCEPT !.pc = "strip", !.text = CollapseSpaces(@, 1)]

cl_strip ==
    /\ cl.pc = "strip"
    /\ cl' = [cl EXCEPT !.pc = "done", !.text = Strip(@)]

CleanNext ==
    \/ cl_timestamps /\ UNCHANGED <<svars, bvars, lv, cv, md, rt, pdf, tr, ch, tg, sb>>
    \/ cl_labels /\ UNCHANGED <<svars, bvars, lv, cv, md, rt, pdf, tr, ch, tg, sb>>
    \/ cl_phrases /\ UNCHANGED <<svars, bvars, lv, cv, md, rt, pdf, tr, ch, tg, sb>>
    \/ cl_markers /\ UNCHANGED <<svars, bvars, lv, cv, md, rt, pdf, tr, ch, tg, sb>>
    \/ cl_whitespace /\ UNCHANGED <<svars, bvars, lv, cv, md, rt, pdf, tr, ch, tg, sb>>
    \/ cl_strip /\ UNCHANGED <<svars, bvars, lv, cv, md, rt, pdf, tr, ch, tg, sb>>

\* ---------------------------------------------------------- generate_metadata.py: key phrases and tags

\* word_freq.most_common(10)
TopKeywords == 10

\* for phrase in key_phrases[:5]
PartPhrases == 5

\* for phrase in key_phrases[:10]
FullPhrases == 10

\* list(dict.fromkeys(tags))[:20]
PartTagLimit == 20

\* list(dict.fromkeys(tags))[:25]
FullTagLimit == 25

\* The largest number of story words and of other words of a text.
MaxKeyWords == 12
MaxSpecials == 1

\* Story words: each has more than 4 and fewer than 20 characters.
StoryWords == [k \in 1..MaxKeyWords |-> "kwento" \o ToString(k)]

\* Other words of a text: a capitalised word that is a base tag, the series
\* tag, a common word, a short word, and a word of more than 20 characters.
Specials == {"Mystery", "serye", "being", "gabi", "napakahabangsalitangito"}

Vocabulary == Specials \cup { StoryWords[k] : k \in 1..MaxKeyWords }

\* text.split(): the words of the texts that are given to extract_key_phrases.
Texts ==
    { pre \o SubSeq(StoryWords, 1, n) \o rep :
        pre \in UNION { [1..m -> Specials] : m \in 0..MaxSpecials },
        n \in 0..MaxKeyWords,
        rep \in {<<>>} \cup { <<w>> : w \in Vocabulary } }

\* str.lower() on the words of the vocabulary.
Lower(w) == IF w = "Mystery" THEN "mystery" ELSE w

common_words ==
    {"ang", "ng", "sa", "na", "ay", "at", "o", "si", "ni", "kay", "para", "nga", "din", "rin",
     "the", "a", "an", "and", "or", "but", "in", "on", "to", "for", "of", "with", "by",
     "is", "are", "was", "were", "be", "been", "being", "have", "has", "had", "do", "does",
     "did"}

Take(seq, n) == SubSeq(seq, 1, Min(n, Len(seq)))

\* The tags of a list as it is, duplicates kept.
Listed(seq) == seq

\* list(dict.fromkeys(seq)): the first occurrence of every element, in order.
RECURSIVE Unique(_)
Unique(seq) ==
    IF seq = <<>> THEN <<>>
    ELSE LET rest == Unique(SubSeq(seq, 1, Len(seq) - 1))
             last == seq[Len(seq)]
         IN IF \E k \in 1..Len(rest) : rest[k] = last THEN rest ELSE Append(rest, last)

\* list(dict.fromkeys(tags))
UniqueTags(tags) == Unique(tags)

\* Counter(key_words)[w]
Count(seq, w) == Cardinality({ k \in 1..Len(seq) : seq[k] = w })

\* Counter.most_common(n): the n most frequent elements, equal counts in the
\* order of first occurrence.
RECURSIVE MostCommon(_, _, _)
MostCommon(items, key_words, n) ==
    IF n = 0 \/ items = <<>> THEN <<>>
    ELSE LET best == CHOOSE k \in 1..Len(items) :
                        /\ \A j \in 1..Len(items) :
                              Count(key_words, items[j]) <= Count(key_words, items[k])
                        /\ \A j \in 1..(k - 1) :
                              Count(key_words, items[j]) < Count(key_words, items[k])
         IN <<items[best]>>
            \o MostCommon(SubSeq(items, 1, best - 1) \o SubSeq(items, best + 1, Len(items)),
                          key_words, n - 1)

extract_key_phrases(text) ==
    LET words == [k \in 1..Len(text) |-> Lower(text[k])]
        key_words == SelectSeq(words, LAMBDA w : Len(w) > 4 /\ w \notin common_words)
    IN MostCommon(Unique(key_words), key_words, TopKeywords)

\* for phrase in key_phrases[:n]: if len(phrase) > 3 and len(phrase) < 20: tags.append(phrase.lower())
PhraseTags(key_phrases, n) ==
    LET good == SelectSeq(Take(key_phrases, n), LAMBDA p : Len(p) > 3 /\ Len(p) < 20)
    IN [k \in 1..Len(good) |-> Lower(good[k])]

PartBaseTags ==
    <<"kwentong takot", "true crime", "horror story", "tagalog horror", "pinoy horror",
      "filipino horror", "scary story", "true story", "mystery", "suspense">>

FullBaseTags ==
    <<"kwentong takot", "true crime", "horror story", "tagalog horror", "pinoy horror",
      "filipino horror", "buong kwento", "full story", "complete story", "scary story",
      "true story", "mystery", "suspense", "compilation">>

generate_tags(key_phrases, part_number, total_parts) ==
    LET tags == PartBaseTags
                \o (IF total_parts > 1
                    THEN <<"bahagi " \o ToString(part_number), "serye">> ELSE <<>>)
                \o PhraseTags(key_phrases, PartPhrases)
    IN Take(UniqueTags(tags), PartTagLimit)

\* The tags of generate_full_metadata.
FullTags(key_phrases) ==
    Take(UniqueTags(FullBaseTags \o PhraseTags(key_phrases, FullPhrases)), FullTagLimit)

TagInits ==
    { r \in { [pc |-> "extract", kind |-> "part", text |-> t, part_number |-> p,
               total_parts |-> n, key_phrases |-> <<>>, tags |-> <<>>] :
                t \in Texts, p \in 1..2, n \in 1..2 } : r.part_number <= r.total_parts }
    \cup { [pc |-> "extract", kind |-> "full", text |-> t, part_number |-> 0, total_parts |-> n,
            key_phrases |-> <<>>, tags |-> <<>>] : t \in Texts, n \in 1..2 }

\* key_phrases = self.extract_key_phrases(text)
tg_extract ==
    /\ tg.pc = "extract"
    /\ tg' = [tg EXCEPT !.pc = "tags", !.key_phrases = extract_key_phrases(tg.text)]

\* generate_part_metadata: tags = self.generate_tags(key_phrases, part_number, total_parts)
tg_generate_tags ==
    /\ tg.pc = "tags"
    /\ tg.kind = "part"
    /\ tg' = [tg EXCEPT !.pc = "done",
                        !.tags = generate_tags(tg.key_phrases, tg.part_number, tg.total_parts)]

\* generate_full_metadata: the tags of the whole story
tg_full_tags ==
    /\ tg.pc = "tags"
    /\ tg.kind = "full"
    /\ tg' = [tg EXCEPT !.pc = "done", !.tags = FullTags(tg.key_phrases)]

TagsNext ==
    \/ tg_extract /\ UNCHANGED <<svars, bvars, lv, cv, md, rt, pdf, tr, ch, sb, cl>>
    \/ tg_generate_tags /\ UNCHANGED <<svars, bvars, lv, cv, md, rt, pdf, tr, ch, sb, cl>>
    \/ tg_full_tags /\ UNCHANGED <<svars, bvars, lv, cv, md, rt, pdf, tr, ch, sb, cl>>

\* ---------------------------------------------------------- specifications

SplitIdle == spc = "idle"
             /\ sreq = [text |-> "missing", cleaned |-> <<>>, has_target |-> TRUE, target_words |-> 0]
             /\ sresp = NoResponse /\ ssends = 0

BatchIdle ==
    /\ endpoint = "none" /\ shape = "list" /\ parts = <<>>
    /\ batch_index = 0 /\ batch_size = 0 /\ pc = "idle" /\ pos = 0
    /\ batch = <<>> /\ opCalls = <<>> /\ resp = NoResponse /\ sends = 0 /\ callerLog = <<>>

SplitInit ==
    /\ spc = "request"
    /\ sreq \in SplitRequests
    /\ sresp = NoResponse
    /\ ssends = 0

BatchInit ==
    /\ endpoint \in Endpoints
    /\ \/ shape = "list" /\ parts \in ItemLists
       \/ shape \in {"missing", "notlist"} /\ parts = <<>>
       \/ shape = "mismatch" /\ endpoint = "create_videos" /\ parts = <<>>
    /\ batch_index \in (0 - 1)..MaxIndex
    /\ batch_size \in (0 - 1)..MaxSize
    /\ pc = "recv"
    /\ pos = 0
    /\ batch = <<>>
    /\ opCalls = <<>>
    /\ resp = NoResponse
    /\ sends = 0
    /\ callerLog = <<>>

SplitNext ==
    \/ split_do_POST /\ UNCHANGED <<bvars, lv, cv, md, rt, pdf, tvars>>
    \/ split_repeat /\ UNCHANGED <<bvars, lv, cv, md, rt, pdf, tvars>>

BatchNext ==
    \/ do_POST_validate /\ UNCHANGED <<svars, lv, cv, md, rt, pdf, tvars>>
    \/ do_POST_item /\ UNCHANGED <<svars, lv, cv, md, rt, pdf, tvars>>
    \/ do_POST_respond /\ UNCHANGED <<svars, lv, cv, md, rt, pdf, tvars>>
    \/ caller_next /\ UNCHANGED <<svars, lv, cv, md, rt, pdf, tvars>>

SplitSpecInit ==
    /\ SplitInit /\ BatchIdle
    /\ lv = IdleRecord /\ cv = IdleRecord /\ md = IdleRecord /\ rt = IdleRecord /\ pdf = IdleRecord
    /\ TextIdle
BatchSpecInit ==
    /\ BatchInit /\ SplitIdle
    /\ lv = IdleRecord /\ cv = IdleRecord /\ md = IdleRecord /\ rt = IdleRecord /\ pdf = IdleRecord
    /\ TextIdle
LongSpecInit ==
    /\ lv \in LongRequests
    /\ SplitIdle /\ BatchIdle
    /\ cv = IdleRecord /\ md = IdleRecord /\ rt = IdleRecord /\ pdf = IdleRecord
    /\ TextIdle

VideoSpecInit ==
    /\ cv \in VideoCalls
    /\ SplitIdle /\ BatchIdle
    /\ lv = IdleRecord /\ md = IdleRecord /\ rt = IdleRecord /\ pdf = IdleRecord
    /\ TextIdle

MetadataSpecInit ==
    /\ md \in MetadataRequests
    /\ SplitIdle /\ BatchIdle
    /\ lv = IdleRecord /\ cv = IdleRecord /\ rt = IdleRecord /\ pdf = IdleRecord
    /\ TextIdle

RetrySpecInit ==
    /\ rt \in RetryInits
    /\ SplitIdle /\ BatchIdle
    /\ lv = IdleRecord /\ cv = IdleRecord /\ md = IdleRecord /\ pdf = IdleRecord
    /\ TextIdle

PdfSpecInit ==
    /\ pdf \in PdfRequests
    /\ SplitIdle /\ BatchIdle
    /\ lv = IdleRecord /\ cv = IdleRecord /\ md = IdleRecord /\ rt = IdleRecord
    /\ TextIdle

OthersIdle ==
    /\ SplitIdle /\ BatchIdle
    /\ lv = IdleRecord /\ cv = IdleRecord /\ md = IdleRecord /\ rt = IdleRecord /\ pdf = IdleRecord

TranslateSpecInit ==
    /\ tr \in TranslateInits
    /\ OthersIdle
    /\ ch = IdleRecord /\ tg = IdleRecord /\ sb = IdleRecord /\ cl = IdleRecord

ChunkSpecInit ==
    /\ ch \in ChunkInits
    /\ OthersIdle
    /\ tr = IdleRecord /\ tg = IdleRecord /\ sb = IdleRecord /\ cl = IdleRecord

CleanSpecInit ==
    /\ \E m \in 0..MaxPieces : \E f \in [1..m -> Pieces] : cl = CleanStart(Transcript(f))
    /\ OthersIdle
    /\ tr = IdleRecord /\ ch = IdleRecord /\ tg = IdleRecord /\ sb = IdleRecord

TagsSpecInit ==
    /\ tg \in TagInits
    /\ OthersIdle
    /\ tr = IdleRecord /\ ch = IdleRecord /\ sb = IdleRecord /\ cl = IdleRecord

SubtitleSpecInit ==
    /\ sb \in SubtitleInits
    /\ OthersIdle
    /\ tr = IdleRecord /\ ch = IdleRecord /\ tg = IdleRecord /\ cl = IdleRecord

SplitSpec == SplitSpecInit /\ [][SplitNext]_vars
BatchSpec == BatchSpecInit /\ [][BatchNext]_vars
LongSpec == LongSpecInit /\ [][LongNext]_vars
VideoSpec == VideoSpecInit /\ [][VideoNext]_vars
MetadataSpec == MetadataSpecInit /\ [][MetadataNext]_vars
RetrySpec == RetrySpecInit /\ [][RetryNext]_vars
PdfSpec == PdfSpecInit /\ [][PdfNext]_vars
TranslateSpec == TranslateSpecInit /\ [][TranslateNext]_vars
ChunkSpec == ChunkSpecInit /\ [][ChunkNext]_vars
SubtitleSpec == SubtitleSpecInit /\ [][SubtitleNext]_vars
CleanSpec == CleanSpecInit /\ [][CleanNext]_vars
TagsSpec == TagsSpecInit /\ [][TagsNext]_vars

Init ==
    \/ SplitSpecInit \/ BatchSpecInit \/ LongSpecInit \/ VideoSpecInit \/ MetadataSpecInit
    \/ RetrySpecInit \/ PdfSpecInit \/ TranslateSpecInit \/ ChunkSpecInit
    \/ SubtitleSpecInit \/ CleanSpecInit \/ TagsSpecInit
Next ==
    \/ SplitNext \/ BatchNext \/ LongNext \/ VideoNext \/ MetadataNext
    \/ RetryNext \/ PdfNext \/ TranslateNext \/ ChunkNext
    \/ SubtitleNext \/ CleanNext \/ TagsNext
Spec == Init /\ [][Next]_vars

\* ================================================================= claims

\* The sentences of each part, in part order.
RECURSIVE ResplitAll(_)
ResplitAll(ps) ==
    IF ps = <<>> THEN <<>> ELSE SplitSentences(Head(ps)) \o ResplitAll(Tail(ps))

NonEmptySentences(text) == SelectSeq(SplitSentences(text), LAMBDA x : x # <<>>)

SplitDone == spc = "done" /\ sreq.text = "text"
PartsOfRequest == split_into_parts(sreq.cleaned, TargetWords(sreq))

\* C1: splitting every part returned by split_into_parts back into sentences
\* and concatenating them in part order gives exactly the non-empty sentences
\* of the cleaned text, and no part is empty.
C1_Completeness ==
    SplitDone =>
        /\ \A k \in 1..Len(PartsOfRequest) : PartsOfRequest[k] # <<>>
        /\ ResplitAll(PartsOfRequest) = NonEmptySentences(sreq.cleaned)

\* C1 witness: a split into at least two parts, one of them of several
\* sentences, of a text of at least four sentences.
C1_Witness ==
    /\ SplitDone
    /\ sresp.status = 200
    /\ Len(sresp.body.parts) >= 2
    /\ Len(NonEmptySentences(sreq.cleaned)) >= 4
    /\ \E k \in 1..Len(sresp.body.parts) : Len(SplitSentences(sresp.body.parts[k])) >= 2

\* The words of a part before its last sentence.
WordsBeforeLastSentence(part) ==
    LET ss == SplitSentences(part)
    IN  WordCount(part) - WordCount(ss[Len(ss)])

\* C2 as stated: every part but the last has target*0.8 <= w <= target*1.2.
C2_Original ==
    (SplitDone /\ sreq.target_words > 0) =>
        \A k \in 1..(Len(PartsOfRequest) - 1) :
            LET w == WordCount(PartsOfRequest[k])
            IN  /\ 4 * sreq.target_words <= 5 * w
                /\ 5 * w <= 6 * sreq.target_words

\* C2 amended: every part but the last has at least floor(target*0.8) words,
\* and at most floor(target*1.2) words unless it is a single sentence or its
\* last sentence was appended while the buffer was below floor(target*0.8).
C2_Bounds ==
    (SplitDone /\ sreq.target_words > 0) =>
        \A k \in 1..(Len(PartsOfRequest) - 1) :
            LET part == PartsOfRequest[k]
                w == WordCount(part)
            IN  /\ w >= MinWords(sreq.target_words)
                /\ \/ w <= MaxWordsOf(sreq.target_words)
                   \/ Len(SplitSentences(part)) = 1
                   \/ WordsBeforeLastSentence(part) < MinWords(sreq.target_words)

\* C2 witness: a part that is not the last, of several sentences, above
\* floor(target*1.2) by the overshoot exception.
C2_Witness ==
    /\ SplitDone
    /\ sreq.target_words > 0
    /\ \E k \in 1..(Len(PartsOfRequest) - 1) :
          /\ WordCount(PartsOfRequest[k]) > MaxWordsOf(sreq.target_words)
          /\ Len(SplitSentences(PartsOfRequest[k])) >= 2

\* ------------------------------------------------------- batch endpoints

Answered == pc \in {"sent", "done"}
Ok200 == Answered /\ resp.status = 200

\* The request passed validation and its parameters are those of the data
\* model: batch_index >= 0, batch_size > 0.
PassedValidation == shape = "list" /\ (endpoint \in SliceEndpoints => Len(parts) >= 1)
SaneParameters == batch_index >= 0 /\ batch_size > 0

CeilDiv(a, b) == (a + b - 1) \div b

\* C3 as stated: for batch_index >= 0 and batch_size > 0, every 200 response
\* has 0 <= batch_start <= batch_end <= total_parts.
C3_WindowInvariant ==
    (Ok200 /\ resp.body.batch_index >= 0 /\ resp.body.batch_size > 0) =>
        /\ 0 <= resp.body.batch_start
        /\ resp.body.batch_start <= resp.body.batch_end
        /\ resp.body.batch_end <= resp.body.total_parts

\* The caller started at batch_index 0 with a list of N >= 1 items.
SessionFromZero ==
    /\ callerLog # <<>>
    /\ callerLog[1].batch_index = 0
    /\ Len(parts) >= 1

\* The calls of the session whose window holds index i.
WindowsHolding(i) ==
    { k \in 1..Len(callerLog) : callerLog[k].batch_start <= i /\ i < callerLog[k].batch_end }

\* C4: for N >= 1 items and batch_size b > 0 the windows of batch_index 0, 1,
\* ..., K are [0,b), [b,2b), ...: each starts where the previous one ended,
\* has_more is true on every window but the K-th (K = ceil(N/b) - 1), and every
\* index of [0, N) lies in exactly one window once has_more is false.
C4_Contiguity ==
    (SessionFromZero /\ batch_size > 0) =>
        /\ \A k \in 1..Len(callerLog) :
              /\ callerLog[k].batch_index = k - 1
              /\ callerLog[k].batch_start = (k - 1) * batch_size
              /\ callerLog[k].batch_end = Min(k * batch_size, Len(parts))
              /\ k > 1 => callerLog[k].batch_start = callerLog[k - 1].batch_end
              /\ callerLog[k].has_more = (k < CeilDiv(Len(parts), batch_size))
        /\ \A i \in 0..(Len(parts) - 1) : Cardinality(WindowsHolding(i)) <= 1
        /\ ~callerLog[Len(callerLog)].has_more =>
              \A i \in 0..(Len(parts) - 1) : Cardinality(WindowsHolding(i)) = 1

\* C4 witness: a session over 3 items with batch_size 2 that has received its
\* final window.
C4_Witness ==
    /\ SessionFromZero
    /\ batch_size = 2
    /\ Len(parts) = 3
    /\ Len(callerLog) = 2
    /\ ~callerLog[2].has_more

\* C5 as stated, for every batch_size the endpoint accepts: the caller gets
\* has_more = false, after exactly ceil(N/batch_size) calls.  In the form a
\* finite run refutes: a session of N >= 1 items never gets has_more = true
\* on its N-th or a later call (ceil(N/b) <= N), and for b > 0 the final
\* window is that of call ceil(N/b).
C5_CallerTerminates ==
    SessionFromZero =>
        \A k \in 1..Len(callerLog) :
            /\ callerLog[k].has_more => k < Len(parts)
            /\ (~callerLog[k].has_more /\ batch_size > 0) =>
                   k = CeilDiv(Len(parts), batch_size)

\* The entry of the batch for position k of the window, and the item it is for.
ItemAt(k) == BatchRange(endpoint, parts, batch_index, batch_size)[k]
KindAt(k) == IF ItemAt(k) < 0 THEN "null" ELSE parts[ItemAt(k) + 1]
HasError(e) == "error" \in DOMAIN e /\ e.error # ""
Populated(e) == "media" \in DOMAIN e /\ e.media /\ e.error = ""

\* C6 as stated: in generate_tts, generate_images and create_videos, whatever
\* items fail or are malformed, the response is 200, the batch has one entry
\* per index of the window, each failing item's entry carries an error and
\* every other item is populated.
C6_ErrorIsolation ==
    (pc = "sent" /\ endpoint \in IsolatingEndpoints /\ PassedValidation /\ SaneParameters) =>
        /\ resp.status = 200
        /\ Len(resp.body.batch) = Len(BatchRange(endpoint, parts, batch_index, batch_size))
        /\ \A k \in 1..Len(resp.body.batch) :
              /\ KindAt(k) \in {"fail", "null", "nonstr"} => HasError(resp.body.batch[k])
              /\ KindAt(k) = "ok" => Populated(resp.body.batch[k])

\* C7: in translate_text, when the translation of an item fails, that item is
\* the last one attempted and the response is a 500 error body without
\* translated_batch, whatever was translated before it.
C7_TranslationStrict ==
    (endpoint = "translate_text"
        /\ \E k \in 1..Len(opCalls) : parts[opCalls[k] + 1] = "fail") =>
        /\ parts[opCalls[Len(opCalls)] + 1] = "fail"
        /\ \A k \in 1..(Len(opCalls) - 1) : parts[opCalls[k] + 1] # "fail"
        /\ ItemAt(pos) = opCalls[Len(opCalls)]
        /\ Answered
        /\ resp.status = 500
        /\ DOMAIN resp.body = {"error"}

\* C7 witness: the second item of the window fails after the first was
\* translated.
C7_Witness ==
    /\ endpoint = "translate_text"
    /\ Answered
    /\ Len(opCalls) = 2
    /\ parts[opCalls[1] + 1] = "ok"
    /\ parts[opCalls[2] + 1] = "fail"
    /\ Len(BatchRange(endpoint, parts, batch_index, batch_size)) = 3

\* C8 as stated: in every batch endpoint a blank item gives {error: "Empty
\* text"} in its slot and the external operation is not invoked for it.
C8_Original ==
    (pc \in {"loop", "sent"} /\ PassedValidation) =>
        \A k \in 1..Len(batch) :
            KindAt(k) = "blank" =>
                /\ HasError(batch[k]) /\ batch[k].error = "Empty text"
                /\ \A c \in 1..Len(opCalls) : opCalls[c] # ItemAt(k)

\* C8 amended: in generate_tts and generate_images a blank item gives {error:
\* "Empty text"} and the operation is not invoked for it; in translate_text it
\* gives the empty string and translation is not invoked for it; create_videos
\* has no such case: create_video is invoked for a blank text as for any other.
C8_EmptyItem ==
    (pc \in {"loop", "sent"} /\ PassedValidation) =>
        \A k \in 1..Len(batch) :
            KindAt(k) = "blank" =>
                /\ endpoint \in {"generate_tts", "generate_images"} =>
                      /\ HasError(batch[k]) /\ batch[k].error = "Empty text"
                      /\ \A c \in 1..Len(opCalls) : opCalls[c] # ItemAt(k)
                /\ endpoint = "translate_text" =>
                      /\ batch[k] = Translated(ItemAt(k), "")
                      /\ \A c \in 1..Len(opCalls) : opCalls[c] # ItemAt(k)
                /\ endpoint = "create_videos" =>
                      /\ \E c \in 1..Len(opCalls) : opCalls[c] = ItemAt(k)
                      /\ ~(HasError(batch[k]) /\ batch[k].error = "Empty text")

\* C8 witness: a generate_tts batch with a blank item between two items that
\* were synthesized.
C8_Witness ==
    /\ endpoint = "generate_tts"
    /\ Ok200
    /\ Len(batch) = 3
    /\ KindAt(2) = "blank"
    /\ batch[2].error = "Empty text"
    /\ Populated(batch[1]) /\ Populated(batch[3])
    /\ Len(opCalls) = 2

\* C9: every 200 response reports batch_start = batch_index*batch_size,
\* batch_end = min(batch_start+batch_size, total_parts), total_parts =
\* len(items), has_more = (batch_end < total_parts), next_batch_index =
\* batch_index+1 exactly when has_more and null otherwise, and echoes
\* batch_index and batch_size.
C9_Envelope ==
    (pc = "sent" /\ resp.status = 200) =>
        /\ resp.body.batch_index = batch_index
        /\ resp.body.batch_size = batch_size
        /\ resp.body.batch_start = batch_index * batch_size
        /\ resp.body.batch_end =
              IF resp.body.batch_start + batch_size <= Len(parts)
              THEN resp.body.batch_start + batch_size ELSE Len(parts)
        /\ resp.body.total_parts = Len(parts)
        /\ resp.body.has_more = (resp.body.batch_end < resp.body.total_parts)
        /\ resp.body.has_more => resp.body.next_batch_index = {batch_index + 1}
        /\ ~resp.body.has_more => resp.body.next_batch_index = {}

\* C9 witness: a 200 response of a window that is not the last.
C9_Witness ==
    /\ pc = "sent"
    /\ resp.status = 200
    /\ resp.body.has_more
    /\ resp.body.batch_start = 1
    /\ resp.body.batch_end = 2
    /\ resp.body.next_batch_index = {2}

\* opCalls is strictly increasing.
StrictlyIncreasing(q) == \A a, b \in 1..Len(q) : a < b => q[a] < q[b]

\* C10 as stated: the operation is invoked at most once per item, in strictly
\* increasing index order, only for indices of [batch_start, batch_end), and
\* every 200 response has exactly batch_end - batch_start entries, entry i
\* being the result for items[batch_start + i].
C10_Sequential ==
    (PassedValidation /\ SaneParameters /\ pc \in {"loop", "sent"}) =>
        /\ StrictlyIncreasing(opCalls)
        /\ \A c \in 1..Len(opCalls) :
              /\ StartIdx(batch_index, batch_size) <= opCalls[c]
              /\ opCalls[c] < EndIdx(batch_index, batch_size, Len(parts))
        /\ (pc = "sent" /\ resp.status = 200) =>
              /\ Len(resp.body.batch) = resp.body.batch_end - resp.body.batch_start
              /\ \A i \in 1..Len(resp.body.batch) :
                    resp.body.batch[i].item = resp.body.batch_start + i - 1

\* ------------------------------------------------------ create_long_video

\* concatenate_videos has returned or raised.
LongReturned == lv.pc \in {"respond", "done"} /\ lv.shape = "list" /\ Len(lv.files) >= 1

\* C11 as stated: whenever concatenate_videos returns or raises, every temp
\* file it created has been deleted.
C11_TempFilesReleased == LongReturned => lv.disk = {}

\* ------------------------------------------------- create_videos temp files

\* Every call of create_video made so far has returned or raised.
VideoCallsReturned == cv.pc \in {"prepare", "done"} /\ Len(cv.results) >= 1

\* C12 as stated: on success and on every failure path of create_video and
\* reencode_video (audio write, encode, read, re-encode) the temp files are
\* deleted, so after any sequence of calls no temp file remains.
C12_TempFilesReleased == VideoCallsReturned => cv.disk = {}

\* --------------------------------------------------------- generate_metadata

\* C13 as stated: a request that passed validation (a non-empty array,
\* whatever its elements) is answered 200 with one part_metadata entry per
\* part.
C13_NeverFails ==
    (md.pc = "done" /\ md.shape = "list" /\ Len(md.parts) >= 1)
        => /\ md.sent[1].status = 200
           /\ Len(md.sent[1].body.part_metadata) = Len(md.parts)

\* ------------------------------------------------------------------- retry

\* The calls of the API made by the generations that have finished, and by
\* the one in progress.
GenerationCalls ==
    { rt.results[g].calls : g \in 1..Len(rt.results) }
    \cup (IF rt.pc = "check" THEN {rt.calls} ELSE {})

\* C14: every generation calls the API at most twice; it makes a second call
\* exactly when the first response has status 503; and the result follows
\* from the last call alone (an image iff that call returned 200).
C14_BoundedRetry ==
    /\ Len(rt.calls) <= 2
    /\ \A c \in GenerationCalls :
         /\ Len(c) \in {1, 2}
         /\ Len(c) = 2 <=> (c[1].kind = "response" /\ c[1].status = 503)
    /\ \A g \in 1..Len(rt.results) :
         LET c == rt.results[g].calls
         IN  rt.results[g].result = "image"
                 <=> (c[Len(c)].kind = "response" /\ c[Len(c)].status = 200 /\ c[Len(c)].valid)

\* A generation whose first call returned 503 and whose second call gave the
\* image; and one whose second call returned 503 again and was final.
C14_Witness ==
    /\ \E g \in 1..Len(rt.results) :
         /\ Len(rt.results[g].calls) = 2
         /\ rt.results[g].calls[2].status = 200
         /\ rt.results[g].result = "image"
    /\ \E g \in 1..Len(rt.results) :
         /\ Len(rt.results[g].calls) = 2
         /\ rt.results[g].calls[2].status = 503
         /\ rt.results[g].result = "error"

\* ------------------------------------------------------- split_story, empty

InvalidBatchRequest == shape \in {"missing", "notlist", "mismatch"} \/ Len(parts) = 0

\* C16 as stated: in every batch endpoint an invalid request is answered 400
\* and no per-item operation is invoked for it.
C16_ValidationShortCircuits ==
    (Answered /\ InvalidBatchRequest) => (resp.status = 400 /\ opCalls = <<>>)

\* -------------------------------------------------------------- extract_text

PdfAnswered == pdf.pc = "done" /\ pdf.shape = "bytes"
PdfParsed == pdf.magic /\ pdf.reader = "ok"

\* C20: a file without the PDF magic bytes, an encrypted PDF and a PDF of
\* more than 100 pages are each answered 400, the tests being made in that
\* order, and no text is returned with a rejection; a PDF of exactly 100
\* pages is not rejected for its page count.
C20_Rejections ==
    PdfAnswered =>
        /\ ~pdf.magic => pdf.sent[1] = ErrorResponse(400, "File is not a valid PDF")
        /\ (PdfParsed /\ pdf.encrypted)
               => pdf.sent[1] = ErrorResponse(400, "PDF is password-protected. Please upload an unencrypted PDF.")
        /\ (PdfParsed /\ ~pdf.encrypted /\ pdf.pages > 100)
               => pdf.sent[1] = ErrorResponse(400, "PDF has too many pages. Maximum 100 pages supported. Please split your PDF.")
        /\ (PdfParsed /\ ~pdf.encrypted /\ pdf.pages <= 100 /\ pdf.has_text)
               => (pdf.sent[1].status = 200 /\ pdf.sent[1].body.pages = pdf.pages)
        /\ pdf.sent[1].status # 200 => "text" \notin DOMAIN pdf.sent[1].body

\* A PDF of exactly 100 pages, answered 200.
C20_Witness ==
    /\ PdfAnswered /\ PdfParsed /\ ~pdf.encrypted /\ pdf.pages = 100
    /\ pdf.sent[1].status = 200 /\ pdf.sent[1].body.pages = 100

\* --------------------------------------------------------- response envelope

WellFormedResponse(r) ==
    /\ r.status \in {200, 400, 413, 500}
    /\ "error" \in DOMAIN r.body <=> r.status # 200

\* The responses a handler with a log has sent: none while the request is
\* being handled, one when do_POST has returned.
OneResponse(h) ==
    h.pc # "idle" =>
        /\ Len(h.sent) = (IF h.pc = "done" THEN 1 ELSE 0)
        /\ h.pc = "done" => WellFormedResponse(h.sent[1])

\* C17: on every path of every endpoint's do_POST exactly one response is
\* sent for the request; its status is 200, 400, 413 or 500; and its body has
\* a top-level 'error' exactly when the status is not 200.
C17_ResponseEnvelope ==
    /\ spc = "request" => ssends = 0
    /\ spc = "done" => (ssends = 1 /\ WellFormedResponse(sresp))
    /\ pc \in {"recv", "loop"} => sends = 0
    /\ pc \in {"sent", "done"} => (sends = 1 /\ WellFormedResponse(resp))
    /\ OneResponse(lv)
    /\ OneResponse(md)
    /\ OneResponse(pdf)
    /\ (rt.pc # "idle" /\ rt.fn = "generate_thumbnail") => OneResponse(rt)

\* extract_text has answered 413 to a body over the size limit.
C17_Witness ==
    /\ pdf.pc = "done"
    /\ pdf.shape = "too_large"
    /\ pdf.sent = <<ErrorResponse(413, "Request body too large. Max 5MB.")>>

\* -------------------------------------------------------------- statelessness

\* The response of the handler to the request taken alone: validation, the
\* loop over the window from an empty batch, the envelope.
RECURSIVE AloneLoop(_, _, _, _, _, _, _)
AloneLoop(ep, ps, bi, bs, r, k, b) ==
    IF k > Len(r)
    THEN IF ep = "translate_text" /\ \E j \in 1..Len(r) : ps[r[j] + 1] = "null"
         THEN ErrorResponse(500, "Unexpected error")
         ELSE [status |-> 200, body |-> Envelope(b, bi, bs, Len(ps))]
    ELSE LET idx == r[k]
             kind == IF idx < 0 THEN "null" ELSE ps[idx + 1]
             out == ItemOutcome(ep, kind, idx)
         IN  IF out.abort # 0
             THEN ErrorResponse(out.abort, out.message)
             ELSE AloneLoop(ep, ps, bi, bs, r, k + 1, Append(b, out.entry))

AloneResponse(ep, sh, ps, bi, bs) ==
    IF ValidationError(ep, sh, ps) # 0
    THEN ErrorResponse(ValidationError(ep, sh, ps), "request rejected")
    ELSE AloneLoop(ep, ps, bi, bs, BatchRange(ep, ps, bi, bs), 1, <<>>)

\* A repeated call of split_story gives the response of the previous call.
SplitRepeatSame == (spc = "request" /\ sresp # NoResponse /\ spc' = "done") => sresp' = sresp

IsSuccess(e) == e.media /\ e.error = ""
IsFailure(e) == ~e.media /\ e.size = 0 /\ e.error # ""

\* C19: every entry of audio_batch, image_batch and video_batch is either a
\* success (media not null, no 'error') or a failure (media null, size 0, an
\* 'error' string), and never both or neither.
C19_Exclusive ==
    endpoint \in IsolatingEndpoints =>
        /\ \A k \in 1..Len(batch) : IsSuccess(batch[k]) # IsFailure(batch[k])
        /\ (pc = "sent" /\ resp.status = 200) =>
               \A k \in 1..Len(resp.body.batch) :
                   IsSuccess(resp.body.batch[k]) # IsFailure(resp.body.batch[k])

\* A 200 response whose batch holds a success and a failure.
C19_Witness ==
    /\ endpoint \in IsolatingEndpoints
    /\ pc = "sent"
    /\ resp.status = 200
    /\ \E k \in 1..Len(resp.body.batch) : IsSuccess(resp.body.batch[k])
    /\ \E k \in 1..Len(resp.body.batch) : IsFailure(resp.body.batch[k])

\* --------------------------------------------------- split_story statistics

\* C22: in every 200 response of split_story, part_count is the number of
\* parts, total_words is the sum of the word counts of the parts and the word
\* count of the cleaned text, avg_words_per_part is total_words integer-divided
\* by part_count, and target_words is the value used (350 when omitted).
C22_Statistics ==
    (spc = "done" /\ sresp.status = 200) =>
        LET b == sresp.body
        IN  /\ b.part_count = Len(b.parts)
            /\ b.total_words = SumWords(b.parts)
            /\ b.total_words = WordCount(sreq.cleaned)
            /\ b.avg_words_per_part * b.part_count <= b.total_words
            /\ b.total_words < (b.avg_words_per_part + 1) * b.part_count
            /\ sreq.has_target => b.target_words = sreq.target_words
            /\ ~sreq.has_target => b.target_words = 350
            /\ b.parts = split_into_parts(sreq.cleaned, b.target_words)

\* A 200 response of several parts whose average is not exact, and one of a
\* request without target_words.
C22_Witness ==
    /\ spc = "done" /\ sresp.status = 200
    /\ \/ /\ sresp.body.part_count >= 2
          /\ sresp.body.avg_words_per_part * sresp.body.part_count < sresp.body.total_words
       \/ /\ ~sreq.has_target
          /\ sresp.body.target_words = 350

\* ----------------------------------------------------- split reference policy

\* The number of words of a buffer of sentences.
BufferWords(buf) == WordCount(Join(buf))

(***************************************************************************)
(* The stated policy, sentence by sentence, on a buffer of sentences: on    *)
(* overflow of max with a non-empty buffer, emit the buffer and start a new *)
(* one with the sentence if the buffer has at least min words, else append  *)
(* the sentence without emitting; otherwise append, and emit at once when   *)
(* the count reaches the target; at the end emit a non-empty remainder.     *)
(***************************************************************************)
RECURSIVE ReferencePolicy(_, _, _)
ReferencePolicy(sentences, buf, target) ==
    IF sentences = <<>>
    THEN IF buf # <<>> THEN <<Join(buf)>> ELSE <<>>
    ELSE LET s == Head(sentences)
             rest == Tail(sentences)
             min == MinWords(target)
             max == MaxWordsOf(target)
         IN  IF buf # <<>> /\ BufferWords(buf) + WordCount(s) > max
             THEN IF BufferWords(buf) >= min
                  THEN <<Join(buf)>> \o ReferencePolicy(rest, <<s>>, target)
                  ELSE ReferencePolicy(rest, Append(buf, s), target)
             ELSE IF BufferWords(Append(buf, s)) >= target
                  THEN <<Join(Append(buf, s))>> \o ReferencePolicy(rest, <<>>, target)
                  ELSE ReferencePolicy(rest, Append(buf, s), target)

\* C23: for every sequence of sentences and every target, split_into_parts
\* returns exactly the parts of the reference policy.
C23_ReferencePolicy ==
    SplitDone =>
        PartsOfRequest = ReferencePolicy(NonEmptySentences(sreq.cleaned), <<>>, TargetWords(sreq))

\* Three sentences of two words and target_words = 3: three parts of one
\* sentence each.
C23_Witness ==
    /\ SplitDone
    /\ sreq.has_target /\ sreq.target_words = 3
    /\ sreq.cleaned = <<<<1, FALSE>>, <<2, TRUE>>, <<3, FALSE>>, <<4, TRUE>>, <<5, FALSE>>, <<6, TRUE>>>>
    /\ sresp.status = 200
    /\ sresp.body.parts = << <<<<1, FALSE>>, <<2, TRUE>>>>, <<<<3, FALSE>>, <<4, TRUE>>>>,
                             <<<<5, FALSE>>, <<6, TRUE>>>> >>
    /\ sresp.body.parts = ReferencePolicy(NonEmptySentences(sreq.cleaned), <<>>, 3)

\* ------------------------------------------------------- segmenter lower bound

\* Words of the first j sentences of a part.
PrefixWords(part, j) == WordCount(Join(SubSeq(SplitSentences(part), 1, j)))

\* The part holds a sentence appended under the overshoot exception: the
\* buffer before it was below min and adding it exceeded max.
AcceptedByOvershoot(part, target) ==
    \E j \in 2..Len(SplitSentences(part)) :
        /\ PrefixWords(part, j - 1) < MinWords(target)
        /\ PrefixWords(part, j) > MaxWordsOf(target)

\* C24 as stated: every part but the last has 0.8*target <= word_count or
\* holds a sentence accepted by the overshoot exception.
C24_Original ==
    SplitDone =>
        \A k \in 1..(Len(PartsOfRequest) - 1) :
            \/ 4 * TargetWords(sreq) <= 5 * WordCount(PartsOfRequest[k])
            \/ AcceptedByOvershoot(PartsOfRequest[k], TargetWords(sreq))

\* C24 amended: every part but the last has floor(0.8*target) <= word_count
\* or holds a sentence accepted by the overshoot exception.
C24_LowerBound ==
    SplitDone =>
        \A k \in 1..(Len(PartsOfRequest) - 1) :
            \/ MinWords(TargetWords(sreq)) <= WordCount(PartsOfRequest[k])
            \/ AcceptedByOvershoot(PartsOfRequest[k], TargetWords(sreq))

\* A part that is not the last, closed on overflow with floor(0.8*target)
\* words, fewer than 0.8*target, and without an overshoot sentence.
C24_Witness ==
    /\ SplitDone
    /\ \E k \in 1..(Len(PartsOfRequest) - 1) :
          /\ 5 * WordCount(PartsOfRequest[k]) < 4 * TargetWords(sreq)
          /\ WordCount(PartsOfRequest[k]) = MinWords(TargetWords(sreq))
          /\ ~AcceptedByOvershoot(PartsOfRequest[k], TargetWords(sreq))

\* C29: for target_words > 0, every part but the last has at least
\* floor(target_words*0.8) words (5*w >= 4*target - 4).
C29_MinimumPartSize ==
    (SplitDone /\ TargetWords(sreq) > 0) =>
        \A k \in 1..(Len(PartsOfRequest) - 1) :
            5 * WordCount(PartsOfRequest[k]) + 4 >= 4 * TargetWords(sreq)

\* A part that is not the last, emitted by the overflow branch with exactly
\* floor(target_words*0.8) words, and one emitted by the greedy close.
C29_Witness ==
    /\ SplitDone /\ sreq.has_target /\ sreq.target_words = 3
    /\ Len(PartsOfRequest) >= 3
    /\ \E k \in 1..(Len(PartsOfRequest) - 1) : WordCount(PartsOfRequest[k]) = 2
    /\ \E k \in 1..(Len(PartsOfRequest) - 1) : WordCount(PartsOfRequest[k]) >= 3

\* -------------------------------------------------- batch parameter validation

\* C28 as stated: a batch request whose batch_size is not positive or whose
\* batch_index is negative is rejected with 400 before any item is processed,
\* and never receives a 200 response with has_more = true.
C28_ParameterValidation ==
    (pc = "sent" /\ shape = "list" /\ (batch_size <= 0 \/ batch_index < 0)) =>
        /\ resp.status = 400
        /\ opCalls = <<>>
        /\ batch = <<>>

\* ------------------------------------------------- translation backend order

\* C26: for every text, the backends invoked are Google Translate,
\* LibreTranslate, MyMemory in that order, each only after every backend
\* before it raised; the first backend that returns gives the result and none
\* is invoked after it; translate_text raises exactly when all three raised.
C26_FallbackOrder ==
    tr.pc # "idle" =>
        /\ \A j \in 1..Len(tr.invoked) :
              tr.invoked[j].backend = Backends[j] /\ tr.invoked[j].outcome = "raise"
        /\ \A g \in 1..Len(tr.results) :
              LET inv == tr.results[g].invoked
                  res == tr.results[g].result
                  last == inv[Len(inv)]
              IN  /\ Len(inv) \in 1..3
                  /\ \A j \in 1..Len(inv) : inv[j].backend = Backends[j]
                  /\ \A j \in 1..(Len(inv) - 1) : inv[j].outcome = "raise"
                  /\ res.raised <=> (Len(inv) = 3 /\ \A j \in 1..3 : inv[j].outcome = "raise")
                  /\ ~res.raised =>
                        (last.outcome # "raise" /\ res.from = last.backend
                            /\ res.value = last.outcome)

\* A text translated by MyMemory after the two other backends raised, a text
\* for which Google returned an empty string, and a text for which all raised.
C26_Witness ==
    /\ tr.pc = "done"
    /\ \E g \in 1..Len(tr.results) :
          /\ Len(tr.results[g].invoked) = 3
          /\ tr.results[g].result = [raised |-> FALSE, from |-> "mymemory", value |-> "value"]
    /\ \E g \in 1..Len(tr.results) :
          tr.results[g].result = [raised |-> FALSE, from |-> "google", value |-> "empty"]
    /\ \E g \in 1..Len(tr.results) : tr.results[g].result.raised

\* --------------------------------------------------------- MyMemory chunks

\* The indices of the sentences that are not empty, in text order.
NonEmptyIndices(lens) == SelectSeq([i \in 1..Len(lens) |-> i], LAMBDA i : lens[i] # 0)

\* C30 as stated: for a text of more than 500 characters, every chunk of more
\* than one sentence has at most 500 characters when joined with single
\* spaces, and the chunks hold every non-empty sentence exactly once, in text
\* order.
C30_ChunkLimit ==
    (ch.pc = "done" /\ ~ch.whole) =>
        /\ \A c \in 1..Len(ch.chunks) :
              Len(ch.chunks[c]) > 1 => JoinedLength(ch.sentences, ch.chunks[c]) <= 500
        /\ Flatten(ch.chunks) = NonEmptyIndices(ch.sentences)

\* --------------------------------------------------------- subtitle wrapping

\* The word after the last word of a line, 0 when the line ends the text.
WordAfter(line) == IF line[Len(line)] < Len(sb.words) THEN line[Len(line)] + 1 ELSE 0

\* C27 as stated: a wrapped subtitle has at most 3 lines, every line has at
\* most 40 characters, the words keep their order, and a line is ended only
\* when the next word of the text would not fit on it.
C27_SubtitleWrapping ==
    sb.pc = "done" =>
        /\ Len(sb.lines) <= 3
        /\ \A n \in 1..Len(sb.lines) : JoinedLength(sb.words, sb.lines[n]) <= 40
        /\ Flatten(sb.lines) = [k \in 1..Len(Flatten(sb.lines)) |-> k]
        /\ \A n \in 1..Len(sb.lines) :
              WordAfter(sb.lines[n]) # 0 =>
                  JoinedLength(sb.words, sb.lines[n]) + 1 + sb.words[WordAfter(sb.lines[n])] > 40

\* --------------------------------------------------------- transcript cleaning

\* C21 as stated: the cleaned transcript holds no occurrence of a music or
\* sound marker, whatever the markers of the input were next to or inside.
C21_NoMarkers ==
    cl.pc = "done" => \A i \in 1..Len(cl.text) : ~MarkerAt(cl.text, i)

\* --------------------------------------------------------- metadata tags

NoDuplicates(seq) == \A j, k \in 1..Len(seq) : seq[j] = seq[k] => j = k

\* C25: the tags of a part hold no duplicate and at most 20 entries, the tags
\* of the full video hold no duplicate and at most 25 entries, the fixed base
\* tags come first in their fixed order, and at most 10 key phrases are
\* derived from a text.
C25_TagList ==
    /\ tg.pc \in {"tags", "done"} => Len(tg.key_phrases) <= 10
    /\ (tg.pc = "done" /\ tg.kind = "part") =>
          /\ NoDuplicates(tg.tags)
          /\ Len(tg.tags) <= 20
          /\ Take(tg.tags, Len(PartBaseTags)) = PartBaseTags
    /\ (tg.pc = "done" /\ tg.kind = "full") =>
          /\ NoDuplicates(tg.tags)
          /\ Len(tg.tags) <= 25
          /\ Take(tg.tags, Len(FullBaseTags)) = FullBaseTags

\* The tags of a part of a series whose text has more than 10 different key
\* words, the most frequent of them being the base tag "mystery": the key
\* phrases are cut to 10 and the repeated tag is dropped.
C25_Witness ==
    /\ tg.pc = "done"
    /\ tg.kind = "part"
    /\ tg.total_parts > 1
    /\ Cardinality({ Lower(tg.text[k]) : k \in 1..Len(tg.text) } \ {"being", "gabi"}) > 10
    /\ Len(tg.key_phrases) = 10
    /\ tg.key_phrases[1] = "mystery"
    /\ Len(tg.tags) = 16

=============================================================================
